---- MODULE Spec2Model ----
(***************************************************************************)
(* A model of the binding generator: the intermediate type model and its   *)
(* transformer (csharp/intermediate.rs), the C# collector with its alias   *)
(* resolver and native-type propagator (csharp/mod.rs), the shared         *)
(* pattern detectors (common.rs) and the Java emitter (java/mod.rs).       *)
(***************************************************************************)
EXTENDS Integers, Sequences, FiniteSets, TLC

VARIABLES
  t_pc, t_in, t_out,            \* one application of transform_type: input, result
  filter, filter_mode,          \* LangCSharp.filter, LangCSharp.filter_mode
  aliases,                      \* LangCSharp.aliases : name -> Type
  consts, enums, structs, functions,   \* LangCSharp snippet collections
  native_types, opaque_types,   \* Context.native_types, Context.opaque_types
  outputs,                      \* Outputs handed to the C# generator
  call, ret,                    \* the last trait call made and what it returned
  accepted,                     \* declarations this object has collected so far
  wrapper_function_blacklist, types_enabled, utils_enabled, custom_consts,
  sw_pc, sw_i, sw_run,          \* position inside resolve_native_types
  sw_n,                         \* sweeps this resolve_native_types call has begun
  joutputs, jcall, jret         \* Outputs handed to LangJava, its last call and result

vars == <<t_pc, t_in, t_out, filter, filter_mode, aliases, consts, enums, structs,
          functions, native_types, opaque_types, outputs, call, ret, accepted,
          wrapper_function_blacklist, types_enabled, utils_enabled, custom_consts,
          sw_pc, sw_i, sw_run, sw_n, joutputs, jcall, jret>>

tvars == <<t_pc, t_in, t_out>>
csvars == <<filter, filter_mode, aliases, consts, enums, structs, functions,
            native_types, opaque_types, outputs, call, ret, accepted,
            wrapper_function_blacklist, types_enabled, utils_enabled, custom_consts>>
swvars == <<sw_pc, sw_i, sw_run, sw_n>>
jvars == <<joutputs, jcall, jret>>

-----------------------------------------------------------------------------
(* Bounds of the model.                                                    *)

\* nesting depth of the type expressions fed to transform_type
MaxTyDepth == 2
\* declarations one generator object collects (specification Spec)
MaxDecls == 2
\* structs one generator object collects (specification SpecStructs)
MaxStructs == 3
\* structs in the collection resolve_native_types is stepped through (SpecSweep)
MaxSweepStructs == 2
\* the sweeps of one resolve_native_types call that are counted
MaxSweeps == MaxSweepStructs + 2
\* arguments of a function handed to generate_jni_function (SpecJni)
MaxJniArgs == 3
\* fields of a struct handed to generate_struct_from_java (SpecFromJava)
MaxStructFields == 3
\* native declarations written into one output map, and finalise_output calls on it
MaxJavaDecls == 2
MaxJavaRuns == 1
\* parameters of a list handed to extract_callbacks
MaxParams == 2

-----------------------------------------------------------------------------
(* The parsed type expressions (syntax::ast::Ty), as far as the code       *)
(* inspects them.                                                          *)

\* a path type, by its segments; TyPath is the one-segment path
TyPathOf(segs) == [k |-> "Path", segs |-> segs]
TyPath(s) == TyPathOf(<<s>>)
TyPtr(m, t) == [k |-> "Ptr", mutbl |-> m, ty |-> t]
TyArray(t, e) == [k |-> "Array", ty |-> t, size |-> e]
TyBareFnL(abi, lifetimes, decl) ==
  [k |-> "BareFn", abi |-> abi, lifetimes |-> lifetimes, decl |-> decl]
TyBareFn(abi, decl) == TyBareFnL(abi, <<>>, decl)
TyNever == [k |-> "Never"]
TyTup == [k |-> "Tup"]

\* size expressions of a fixed array: an integer literal, or anything else
ExprLit(n) == [e |-> "Lit", val |-> n]
ExprOther == [e |-> "Path"]

\* an identifier, split as <base><suffix>: the suffix is "", "_len", "_ptr"
\* or "_cap" and the base ends in none of them
Ident(base, suf) == [base |-> base, suf |-> suf]
Pat(s) == Ident(s, "")

\* FnDecl: ordered arguments (pattern, type) and a return type
FnArg(p, t) == [pat |-> p, ty |-> t]
RetDefault == [r |-> "Default"]
RetTy(t) == [r |-> "Ty", ty |-> t]
FnDecl(ins, out) == [inputs |-> ins, output |-> out]

-----------------------------------------------------------------------------
(* The intermediate type model: csharp/intermediate.rs, enum Type.         *)

Prim(k) == [k |-> k]
Pointer(t) == [k |-> "Pointer", ty |-> t]
Array(t, n) == [k |-> "Array", ty |-> t, size |-> n]
Function(ins, out) == [k |-> "Function", inputs |-> ins, output |-> out]
User(name) == [k |-> "User", name |-> name]

\* Option::None of a transformation
None == [k |-> "None"]

\* pprust::pat_to_string of an identifier pattern: the identifier
pat_to_string(p) == p.base \o p.suf

\* the segments of a path joined by sep
RECURSIVE JoinSegs(_, _)
JoinSegs(segs, sep) ==
  IF Len(segs) = 0 THEN ""
  ELSE IF Len(segs) = 1 THEN segs[1]
  ELSE segs[1] \o sep \o JoinSegs(Tail(segs), sep)

RECURSIVE ty_to_string(_)
\* pprust::ty_to_string, on the shapes the code compares it against
ty_to_string(t) ==
  CASE t.k = "Path" -> JoinSegs(t.segs, "::")
    [] t.k = "Ptr" -> "*" \o t.mutbl \o " " \o ty_to_string(t.ty)
    [] t.k = "Array" -> "[" \o ty_to_string(t.ty) \o "; N]"
    [] t.k = "BareFn" -> "fn(..)"
    [] t.k = "Never" -> "!"
    [] OTHER -> "()"

\* Option<u64>: Some(val) or None
Some(v) == [k |-> "Some", val |-> v]
extract_int_literal(e) == IF e.e = "Lit" THEN Some(e.val) ELSE None

RECURSIVE transform_type(_)

transform_path_nounit(input) ==
  LET full == ty_to_string(input) IN
  CASE full = "bool" -> Prim("Bool")
    [] full \in {"c_char", "libc::c_char", "std::os::raw::c_char"} -> Prim("CChar")
    [] full = "f32" -> Prim("F32")
    [] full = "f64" -> Prim("F64")
    [] full = "i8" -> Prim("I8")
    [] full = "i16" -> Prim("I16")
    [] full = "i32" -> Prim("I32")
    [] full = "i64" -> Prim("I64")
    [] full = "isize" -> Prim("ISize")
    [] full = "u8" -> Prim("U8")
    [] full = "u16" -> Prim("U16")
    [] full = "u32" -> Prim("U32")
    [] full = "u64" -> Prim("U64")
    [] full = "usize" -> Prim("USize")
    [] full \in {"c_void", "libc::c_void"} -> Prim("Unit")
    [] OTHER -> User(full)

transform_path(input) ==
  LET full == ty_to_string(input) IN
  CASE full = "bool" -> Prim("Bool")
    [] full \in {"c_char", "libc::c_char", "std::os::raw::c_char"} -> Prim("CChar")
    [] full = "f32" -> Prim("F32")
    [] full = "f64" -> Prim("F64")
    [] full = "i8" -> Prim("I8")
    [] full = "i16" -> Prim("I16")
    [] full = "i32" -> Prim("I32")
    [] full = "i64" -> Prim("I64")
    [] full = "isize" -> Prim("ISize")
    [] full = "u8" -> Prim("U8")
    [] full = "u16" -> Prim("U16")
    [] full = "u32" -> Prim("U32")
    [] full = "u64" -> Prim("U64")
    [] full = "usize" -> Prim("USize")
    [] full \in {"c_void", "libc::c_void", "std::os::raw::c_void"} -> Prim("Unit")
    [] OTHER -> User(full)

transform_array_flatten(ty, size) ==
  LET n == extract_int_literal(size)
      el == transform_type(ty) IN
  IF n = None THEN None
  ELSE IF el = None THEN None
  ELSE Array(el, n.val)

\* the literal is a u64 and `size as usize` keeps its value on a 64-bit target
transform_array(ty, size) ==
  LET n == extract_int_literal(size)
      el == transform_type(ty) IN
  IF n = None THEN None
  ELSE IF el = None THEN None
  ELSE IF el.k = "Array" THEN None
  ELSE Array(el, n.val)

transform_pointer_keep_user(ptr) ==
  LET p == transform_type(ptr.ty) IN
  IF p = None THEN None
  ELSE IF p.k = "CChar" THEN Prim("String")
  ELSE Pointer(p)

transform_pointer(ptr) ==
  LET p == transform_type(ptr.ty) IN
  IF p = None THEN None
  ELSE IF p.k = "CChar" THEN Prim("String")
  ELSE IF p.k = "User" THEN User(p.name)
  ELSE Pointer(p)

transform_function(decl) ==
  LET output == IF decl.output.r = "Default" THEN Prim("Unit")
                ELSE transform_type(decl.output.ty)
      tys == [i \in 1..Len(decl.inputs) |-> transform_type(decl.inputs[i].ty)]
      inputs == [i \in 1..Len(decl.inputs) |->
                   <<pat_to_string(decl.inputs[i].pat), tys[i]>>] IN
  IF output = None THEN None
  ELSE IF \E i \in 1..Len(tys) : tys[i] = None THEN None
  ELSE [inputs |-> inputs, output |-> output]

transform_type(input) ==
  CASE input.k = "Array" -> transform_array(input.ty, input.size)
    [] input.k = "Path" -> transform_path(input)
    [] input.k = "Ptr" -> transform_pointer(input)
    [] input.k = "BareFn" ->
         LET fun == transform_function(input.decl) IN
         IF fun = None THEN None ELSE Function(fun.inputs, fun.output)
    [] OTHER -> None

-----------------------------------------------------------------------------
(* Type expressions the transformer is applied to.                         *)

TablePaths ==
  {<<"bool">>, <<"c_char">>, <<"libc", "c_char">>, <<"std", "os", "raw", "c_char">>,
   <<"f32">>, <<"f64">>, <<"i8">>, <<"i16">>, <<"i32">>, <<"i64">>, <<"isize">>,
   <<"u8">>, <<"u16">>, <<"u32">>, <<"u64">>, <<"usize">>,
   <<"c_void">>, <<"libc", "c_void">>, <<"std", "os", "raw", "c_void">>}
OtherPaths ==
  {<<"Foo">>, <<"Bar">>, <<"libc", "c_int">>, <<"I32">>, <<"void">>, <<"raw", "c_void">>}
AllPaths == TablePaths \cup OtherPaths

CoreLeaves == {TyPath("i32"), TyPath("c_char"), TyPath("c_void"), TyPath("Foo"),
               TyNever}

RetChoices == {RetDefault, RetTy(TyPath("i32")), RetTy(TyTup)}

FnDeclsOver(S) ==
  {FnDecl(<<>>, o) : o \in RetChoices}
    \cup {FnDecl(<<FnArg(IF t = TyPtr("mut", TyPath("c_void")) THEN Pat("user_data") ELSE Pat("x"), t)>>, o) :
            t \in S, o \in RetChoices}

RECURSIVE TyN(_)
TyN(d) ==
  IF d = 0 THEN CoreLeaves
  ELSE LET S == TyN(d - 1) IN
       CoreLeaves
         \cup {TyPtr("mut", t) : t \in S}
         \cup {TyPtr("const", t) : t \in CoreLeaves}
         \cup {TyArray(t, e) : t \in S, e \in {ExprLit(2), ExprOther}}
         \cup {TyBareFn("C", d2) : d2 \in FnDeclsOver(S)}

TyInputs == {TyPathOf(p) : p \in AllPaths} \cup {TyTup} \cup TyN(MaxTyDepth)

-----------------------------------------------------------------------------
(* Declarations handed to the generators (syntax::ast::Item).  Doc strings *)
(* are not modelled: no operation here branches on them.                   *)

ItemTy(ident, generics, ty) ==
  [kind |-> "Ty", ident |-> ident, generics |-> generics, ty |-> ty]
ItemConst(ident, ty) == [kind |-> "Const", ident |-> ident, ty |-> ty]
ItemEnum(ident, attrs, generics, variants) ==
  [kind |-> "Enum", ident |-> ident, attrs |-> attrs, generics |-> generics,
   variants |-> variants]
\* shape: "Struct" (named fields), "Tuple" or "Unit"
ItemStruct(ident, attrs, generics, shape, fields) ==
  [kind |-> "Struct", ident |-> ident, attrs |-> attrs, generics |-> generics,
   shape |-> shape, fields |-> fields]
ItemFn(ident, attrs, abi, generics, decl) ==
  [kind |-> "Fn", ident |-> ident, attrs |-> attrs, abi |-> abi,
   generics |-> generics, decl |-> decl]

\* a struct field: its identifier and its type
StructField(base, suf, ty) == [ident |-> Ident(base, suf), ty |-> ty]

-----------------------------------------------------------------------------
(* common.rs                                                               *)

check_no_mangle(attr) == attr = "no_mangle"
check_repr_c(attr) == attr = "repr(C)"

\* the flag parse_attr returns: some attribute passes the check
parse_attr_repr_c(attrs) == \E a \in attrs : check_repr_c(a)
parse_attr_no_mangle(attrs) == \E a \in attrs : check_no_mangle(a)

is_parameterized_never(generics) == FALSE

\* ast::Generics::is_parameterized, as the parse_* operations call it
is_parameterized(generics) == generics

is_extern(abi) == abi \in {"C", "Cdecl", "Stdcall", "Fastcall", "System"}

-----------------------------------------------------------------------------
(* csharp/intermediate.rs: callbacks                                       *)

is_user_data_any_name(name, ty) ==
  IF ty.k = "Pointer" THEN ty.ty.k = "Unit" ELSE FALSE

is_user_data(name, ty) ==
  IF ty.k = "Pointer" THEN (IF ty.ty.k = "Unit" THEN name = "user_data" ELSE FALSE)
  ELSE FALSE

\* Some(fun): the function of a Function type is the type's own record
extract_callback(ty) ==
  IF ty.k = "Function"
  THEN (IF Len(ty.inputs) > 0
        THEN (IF is_user_data(ty.inputs[1][1], ty.inputs[1][2]) THEN Some(ty) ELSE None)
        ELSE None)
  ELSE None

\* the filter_map of extract_callbacks from the i-th input on: (name, fun)
RECURSIVE extract_callbacks_from(_, _)
extract_callbacks_from(inputs, i) ==
  IF i > Len(inputs) THEN <<>>
  ELSE (IF extract_callback(inputs[i][2]) = None THEN <<>>
        ELSE <<<<inputs[i][1], extract_callback(inputs[i][2]).val>>>>)
       \o extract_callbacks_from(inputs, i + 1)

extract_callbacks(inputs) == extract_callbacks_from(inputs, 1)

num_callbacks(inputs) == Len(extract_callbacks(inputs))

-----------------------------------------------------------------------------
(* Parts of csharp/intermediate.rs this snapshot of the source lacks:      *)
(* transform_const, transform_enum, transform_struct, is_dynamic_array.    *)

transform_const(ty) ==
  LET t == transform_type(ty) IN IF t = None THEN None ELSE [ty |-> t]

transform_enum(variants) == [variants |-> variants]

\* field i opens a pointer/length pair: a pointer immediately followed by
\* the usize field <base>_len
is_array_pair(fields, i) ==
  /\ i < Len(fields)
  /\ fields[i].ty.k = "Ptr"
  /\ fields[i].ident.suf \in {"", "_ptr"}
  /\ fields[i + 1].ident.base = fields[i].ident.base
  /\ fields[i + 1].ident.suf = "_len"
  /\ ty_to_string(fields[i + 1].ty) = "usize"

RECURSIVE transform_fields(_, _)
transform_fields(fields, i) ==
  IF i > Len(fields) THEN <<>>
  ELSE LET pair == is_array_pair(fields, i) IN
       <<[name |-> fields[i].ident.base \o fields[i].ident.suf,
          ty |-> transform_type(fields[i].ty), dyn |-> pair]>>
         \o transform_fields(fields, IF pair THEN i + 2 ELSE i + 1)

transform_struct(fields) ==
  IF \E i \in 1..Len(fields) : transform_type(fields[i].ty) = None THEN None
  ELSE [fields |-> transform_fields(fields, 1)]

is_dynamic_array(field) == field.dyn

-----------------------------------------------------------------------------
(* csharp/mod.rs: Context, alias resolution, native-type propagation       *)

is_opaque(opaque, name) == name \in opaque

is_native_name(native, name) == name \in native

RECURSIVE is_native_type(_, _)
is_native_type(native, ty) ==
  CASE ty.k = "Pointer" -> is_native_type(native, ty.ty)
    [] ty.k = "User" -> is_native_name(native, ty.name)
    [] OTHER -> FALSE

\* lookup_alias recursing without end (its stack overflows)
Diverges == [k |-> "Diverges"]

\* fuel counts the alias-to-alias links still allowed: a chain that follows
\* more links than the table has entries has revisited an entry, and the
\* recursion from there on repeats forever
lookup_alias_one_link(al, name, fuel) ==
  IF name \notin DOMAIN al THEN None ELSE al[name]

RECURSIVE lookup_alias_from(_, _, _)
lookup_alias_from(al, name, fuel) ==
  IF name \notin DOMAIN al THEN None
  ELSE LET ty == al[name] IN
       IF ty.k = "User"
       THEN IF fuel = 0 THEN Diverges
            ELSE LET r == lookup_alias_from(al, ty.name, fuel - 1) IN
                 IF r = None THEN ty ELSE r
       ELSE ty

lookup_alias(al, name) == lookup_alias_from(al, name, Cardinality(DOMAIN al))

RECURSIVE resolve_alias(_, _)
resolve_alias(al, ty) ==
  CASE ty.k = "User" ->
         LET old_ty == lookup_alias(al, ty.name) IN
         IF old_ty = None THEN ty ELSE old_ty
    [] ty.k = "Pointer" ->
         LET r == resolve_alias(al, ty.ty) IN
         IF r = Diverges THEN Diverges ELSE Pointer(r)
    [] ty.k = "Array" ->
         LET r == resolve_alias(al, ty.ty) IN
         IF r = Diverges THEN Diverges ELSE Array(r, ty.size)
    [] ty.k = "Function" ->
         LET o == resolve_alias(al, ty.output)
             ins == [i \in 1..Len(ty.inputs) |->
                       <<ty.inputs[i][1], resolve_alias(al, ty.inputs[i][2])>>] IN
         IF o = Diverges \/ \E i \in 1..Len(ins) : ins[i][2] = Diverges
         THEN Diverges ELSE Function(ins, o)
    [] OTHER -> ty

\* the three loops of resolve_aliases, each over one collection
resolve_consts(al, cs) ==
  [i \in 1..Len(cs) |-> [cs[i] EXCEPT !.ty = resolve_alias(al, cs[i].ty)]]

resolve_struct(al, s) ==
  LET a == lookup_alias(al, s.name) IN
  [name |-> IF a.k = "User" THEN a.name ELSE s.name,
   fields |-> [j \in 1..Len(s.fields) |->
                 [s.fields[j] EXCEPT !.ty = resolve_alias(al, s.fields[j].ty)]]]

resolve_structs(al, ss) == [i \in 1..Len(ss) |-> resolve_struct(al, ss[i])]

resolve_functions(al, fs) ==
  [i \in 1..Len(fs) |->
     [fs[i] EXCEPT !.output = resolve_alias(al, fs[i].output),
                   !.inputs = [j \in 1..Len(fs[i].inputs) |->
                      <<fs[i].inputs[j][1], resolve_alias(al, fs[i].inputs[j][2])>>]]]

\* some lookup made by resolve_aliases never returns
resolve_aliases_diverges(al, cs, ss, fs) ==
  \/ \E i \in 1..Len(cs) : resolve_alias(al, cs[i].ty) = Diverges
  \/ \E i \in 1..Len(ss) :
       \/ lookup_alias(al, ss[i].name) = Diverges
       \/ \E j \in 1..Len(ss[i].fields) : resolve_alias(al, ss[i].fields[j].ty) = Diverges
  \/ \E i \in 1..Len(fs) :
       \/ resolve_alias(al, fs[i].output) = Diverges
       \/ \E j \in 1..Len(fs[i].inputs) : resolve_alias(al, fs[i].inputs[j][2]) = Diverges

\* the body of the for loop of resolve_native_types, for one struct
sweep_struct_once(native, run, snippet) ==
  IF is_native_name(native, snippet.name) THEN [native |-> native, run |-> run]
  ELSE IF \E j \in 1..Len(snippet.fields) :
            is_dynamic_array(snippet.fields[j]) \/ is_native_type(native, snippet.fields[j].ty)
       THEN [native |-> native \cup {snippet.name}, run |-> FALSE]
       ELSE [native |-> native, run |-> run]

sweep_struct_always(native, run, snippet) ==
  IF \E j \in 1..Len(snippet.fields) :
       is_dynamic_array(snippet.fields[j]) \/ is_native_type(native, snippet.fields[j].ty)
  THEN [native |-> native \cup {snippet.name}, run |-> TRUE]
  ELSE [native |-> native, run |-> run]

sweep_struct(native, run, snippet) ==
  IF is_native_name(native, snippet.name) THEN [native |-> native, run |-> run]
  ELSE IF \E j \in 1..Len(snippet.fields) :
            is_dynamic_array(snippet.fields[j]) \/ is_native_type(native, snippet.fields[j].ty)
       THEN [native |-> native \cup {snippet.name}, run |-> TRUE]
       ELSE [native |-> native, run |-> run]

\* one pass of the for loop, from struct i on
RECURSIVE sweep_from(_, _, _, _)
sweep_from(ss, i, native, run) ==
  IF i > Len(ss) THEN [native |-> native, run |-> run]
  ELSE LET r == sweep_struct(native, run, ss[i]) IN sweep_from(ss, i + 1, r.native, r.run)

RECURSIVE resolve_native_types(_, _)
resolve_native_types(ss, native) ==
  LET r == sweep_from(ss, 1, native, FALSE) IN
  IF r.run THEN resolve_native_types(ss, r.native) ELSE r.native

is_ignored_blacklist_only(flt, mode, ident) == ident \in flt

is_ignored(flt, mode, ident) ==
  IF mode = "Blacklist" THEN ident \in flt ELSE ident \notin flt

is_interface_function_any_callbacks(blacklist, name, item) == name \notin blacklist

is_interface_function(blacklist, name, item) ==
  name \notin blacklist /\ num_callbacks(item.inputs) <= 1

-----------------------------------------------------------------------------
(* csharp/mod.rs: the LangCSharp object and its operations.                *)

\* Result<(), Error> of the calls: "Ok" or "Err"; "StackOverflow" when the
\* call never returned because lookup_alias recursed without end
Alive == ret /= "StackOverflow"

NoItem == [kind |-> "None"]

Insert(map, key, val) == (key :> val) @@ map
EmptyMap == <<>>

\* LangCSharp::new
CsInit ==
  /\ filter = {}
  /\ filter_mode = "Blacklist"
  /\ wrapper_function_blacklist = {}
  /\ types_enabled = TRUE
  /\ utils_enabled = TRUE
  /\ opaque_types = {}
  /\ native_types = {}
  /\ custom_consts = <<>>
  /\ consts = <<>>
  /\ enums = <<>>
  /\ structs = <<>>
  /\ functions = <<>>
  /\ aliases = EmptyMap
  /\ outputs = EmptyMap
  /\ call = [op |-> "new", item |-> NoItem]
  /\ ret = "Ok"
  /\ accepted = 0

Filter(ident) ==
  /\ Alive
  /\ filter' = filter \cup {ident}
  /\ call' = [op |-> "filter", item |-> NoItem]
  /\ ret' = "Ok"
  /\ UNCHANGED <<filter_mode, aliases, consts, enums, structs, functions, native_types,
                 opaque_types, outputs, wrapper_function_blacklist, types_enabled,
                 utils_enabled, custom_consts>>
  /\ UNCHANGED accepted

ResetFilter(mode) ==
  /\ Alive
  /\ filter' = {}
  /\ filter_mode' = mode
  /\ call' = [op |-> "reset_filter", item |-> NoItem]
  /\ ret' = "Ok"
  /\ UNCHANGED <<aliases, consts, enums, structs, functions, native_types,
                 opaque_types, outputs, wrapper_function_blacklist, types_enabled,
                 utils_enabled, custom_consts>>
  /\ UNCHANGED accepted

AddOpaqueType(name) ==
  /\ Alive
  /\ opaque_types' = opaque_types \cup {name}
  /\ call' = [op |-> "add_opaque_type", item |-> NoItem]
  /\ ret' = "Ok"
  /\ UNCHANGED <<filter, filter_mode, aliases, consts, enums, structs, functions,
                 native_types, outputs, wrapper_function_blacklist, types_enabled,
                 utils_enabled, custom_consts>>
  /\ UNCHANGED accepted

SetTypesEnabled(enabled) ==
  /\ Alive
  /\ types_enabled' = enabled
  /\ call' = [op |-> "set_types_enabled", item |-> NoItem]
  /\ ret' = "Ok"
  /\ UNCHANGED <<filter, filter_mode, aliases, consts, enums, structs, functions,
                 native_types, opaque_types, outputs, accepted,
                 wrapper_function_blacklist, utils_enabled, custom_consts>>

SetUtilsEnabled(enabled) ==
  /\ Alive
  /\ utils_enabled' = enabled
  /\ call' = [op |-> "set_utils_enabled", item |-> NoItem]
  /\ ret' = "Ok"
  /\ UNCHANGED <<filter, filter_mode, aliases, consts, enums, structs, functions,
                 native_types, opaque_types, outputs, accepted,
                 wrapper_function_blacklist, types_enabled, custom_consts>>

BlacklistWrapperFunction(ident) ==
  /\ Alive
  /\ wrapper_function_blacklist' = wrapper_function_blacklist \cup {ident}
  /\ call' = [op |-> "blacklist_wrapper_function", item |-> NoItem]
  /\ ret' = "Ok"
  /\ UNCHANGED <<filter, filter_mode, aliases, consts, enums, structs, functions,
                 native_types, opaque_types, outputs, accepted, types_enabled,
                 utils_enabled, custom_consts>>

ResetWrapperFunctionBlacklist ==
  /\ Alive
  /\ wrapper_function_blacklist' = {}
  /\ call' = [op |-> "reset_wrapper_function_blacklist", item |-> NoItem]
  /\ ret' = "Ok"
  /\ UNCHANGED <<filter, filter_mode, aliases, consts, enums, structs, functions,
                 native_types, opaque_types, outputs, accepted, types_enabled,
                 utils_enabled, custom_consts>>

ParseTy(item) ==
  /\ Alive
  /\ call' = [op |-> "parse_ty", item |-> item]
  /\ IF is_ignored(filter, filter_mode, item.ident)
     THEN ret' = "Ok" /\ UNCHANGED aliases
     ELSE IF is_parameterized(item.generics)
     THEN ret' = "Ok" /\ UNCHANGED aliases
     ELSE LET ty == transform_type(item.ty) IN
          IF ty = None
          THEN ret' = "Err" /\ UNCHANGED aliases
          ELSE ret' = "Ok" /\ aliases' = Insert(aliases, item.ident, ty)
  /\ UNCHANGED <<filter, filter_mode, consts, enums, structs, functions, native_types,
                 opaque_types, outputs, wrapper_function_blacklist, types_enabled,
                 utils_enabled, custom_consts>>
  /\ UNCHANGED accepted

ParseConst(item) ==
  /\ Alive
  /\ call' = [op |-> "parse_const", item |-> item]
  /\ IF is_ignored(filter, filter_mode, item.ident)
     THEN ret' = "Ok" /\ UNCHANGED consts
     ELSE LET c == transform_const(item.ty) IN
          IF c = None
          THEN ret' = "Err" /\ UNCHANGED consts
          ELSE ret' = "Ok" /\ consts' = Append(consts, [name |-> item.ident, ty |-> c.ty])
  /\ UNCHANGED <<filter, filter_mode, aliases, enums, structs, functions, native_types,
                 opaque_types, outputs, wrapper_function_blacklist, types_enabled,
                 utils_enabled, custom_consts>>
  /\ accepted' = accepted + Len(consts') - Len(consts)

ParseEnum(item) ==
  /\ Alive
  /\ call' = [op |-> "parse_enum", item |-> item]
  /\ IF is_ignored(filter, filter_mode, item.ident)
     THEN ret' = "Ok" /\ UNCHANGED enums
     ELSE IF ~parse_attr_repr_c(item.attrs)
     THEN ret' = "Ok" /\ UNCHANGED enums
     ELSE IF is_parameterized(item.generics)
     THEN ret' = "Err" /\ UNCHANGED enums
     ELSE ret' = "Ok"
          /\ enums' = Append(enums, [name |-> item.ident,
                                      variants |-> transform_enum(item.variants).variants])
  /\ UNCHANGED <<filter, filter_mode, aliases, consts, structs, functions, native_types,
                 opaque_types, outputs, wrapper_function_blacklist, types_enabled,
                 utils_enabled, custom_consts>>
  /\ accepted' = accepted + Len(enums') - Len(enums)

ParseStruct(item) ==
  /\ Alive
  /\ call' = [op |-> "parse_struct", item |-> item]
  /\ IF is_ignored(filter, filter_mode, item.ident)
     THEN ret' = "Ok" /\ UNCHANGED <<structs, native_types>>
     ELSE IF ~parse_attr_repr_c(item.attrs)
     THEN ret' = "Ok" /\ UNCHANGED <<structs, native_types>>
     ELSE IF is_parameterized(item.generics)
     THEN ret' = "Err" /\ UNCHANGED <<structs, native_types>>
     ELSE IF item.shape /= "Struct"
     THEN ret' = "Err" /\ UNCHANGED <<structs, native_types>>
     ELSE LET st == transform_struct(item.fields) IN
          IF st = None
          THEN ret' = "Err" /\ UNCHANGED <<structs, native_types>>
          ELSE LET ss == Append(structs, [name |-> item.ident, fields |-> st.fields]) IN
               /\ ret' = "Ok"
               /\ structs' = ss
               /\ native_types' = resolve_native_types(ss, native_types)
  /\ UNCHANGED <<filter, filter_mode, aliases, consts, enums, functions,
                 opaque_types, outputs, wrapper_function_blacklist, types_enabled,
                 utils_enabled, custom_consts>>
  /\ accepted' = accepted + Len(structs') - Len(structs)

ParseFn(item) ==
  /\ Alive
  /\ call' = [op |-> "parse_fn", item |-> item]
  /\ IF is_ignored(filter, filter_mode, item.ident)
     THEN ret' = "Ok" /\ UNCHANGED functions
     ELSE IF ~parse_attr_no_mangle(item.attrs)
     THEN ret' = "Ok" /\ UNCHANGED functions
     ELSE IF ~is_extern(item.abi)
     THEN ret' = "Ok" /\ UNCHANGED functions
     ELSE IF is_parameterized(item.generics)
     THEN ret' = "Err" /\ UNCHANGED functions
     ELSE LET function == transform_function(item.decl) IN
          IF function = None
          THEN ret' = "Err" /\ UNCHANGED functions
          ELSE ret' = "Ok"
               /\ functions' = Append(functions,
                    [name |-> item.ident, inputs |-> function.inputs,
                     output |-> function.output])
  /\ UNCHANGED <<filter, filter_mode, aliases, consts, enums, structs, native_types,
                 opaque_types, outputs, wrapper_function_blacklist, types_enabled,
                 utils_enabled, custom_consts>>
  /\ accepted' = accepted + Len(functions') - Len(functions)

\* the name emit_callback_wrapper_name gives a callback: it is made of the
\* types of the parameters after the context parameter
callback_wrapper_name(callback) ==
  [i \in 1..(Len(callback.inputs) - 1) |-> callback.inputs[i + 1][2]]

\* the stash of collect_callbacks after one more callback: an entry per
\* name, (callback, count == 1)
stash_entry_always(stash, callback, single) ==
  Append(stash, [name |-> callback_wrapper_name(callback), callback |-> callback,
                 single |-> single])

stash_entry(stash, callback, single) ==
  IF \E i \in 1..Len(stash) : stash[i].name = callback_wrapper_name(callback)
  THEN [i \in 1..Len(stash) |->
          IF stash[i].name = callback_wrapper_name(callback) /\ single
          THEN [stash[i] EXCEPT !.single = TRUE] ELSE stash[i]]
  ELSE Append(stash, [name |-> callback_wrapper_name(callback), callback |-> callback,
                      single |-> single])

\* the inner loop of collect_callbacks, from the j-th callback of a function on
RECURSIVE stash_callbacks(_, _, _)
stash_callbacks(stash, callbacks, j) ==
  IF j > Len(callbacks) THEN stash
  ELSE stash_callbacks(stash_entry(stash, callbacks[j][2], Len(callbacks) = 1),
                       callbacks, j + 1)

\* the outer loop of collect_callbacks, from the i-th function on
RECURSIVE collect_from(_, _, _)
collect_from(fs, i, stash) ==
  IF i > Len(fs) THEN stash
  ELSE collect_from(fs, i + 1, stash_callbacks(stash, extract_callbacks(fs[i].inputs), 1))

\* the entries of the stash (the code lists them in the order of their names)
stash_entries(stash) ==
  {[callback |-> stash[i].callback, single |-> stash[i].single] : i \in 1..Len(stash)}

collect_callbacks(fs) == stash_entries(collect_from(fs, 1, <<>>))

\* the artifacts, by the default names of LangCSharp::new
ClassFile == "Backend.cs"
InterfaceFile == "IBackend.cs"
ConstsFile == "Constants.cs"
TypesFile == "Types.cs"
UtilsFile == "Utils.cs"

class_artifact_reversed(fs, blacklist) ==
  [functions |-> [i \in 1..Len(fs) |->
     [snippet |-> fs[Len(fs) + 1 - i],
      wrapper |-> is_interface_function(blacklist, fs[Len(fs) + 1 - i].name,
                                        fs[Len(fs) + 1 - i])]],
   delegates |-> collect_callbacks(fs)]

class_artifact(fs, blacklist) ==
  [functions |-> [i \in 1..Len(fs) |->
     [snippet |-> fs[i],
      wrapper |-> is_interface_function(blacklist, fs[i].name, fs[i])]],
   delegates |-> collect_callbacks(fs)]

interface_artifact_unfiltered(fs, blacklist) == [functions |-> fs \o fs]

interface_artifact(fs, blacklist) ==
  LET Keep(f) == is_interface_function(blacklist, f.name, f)
      Emit(f) == num_callbacks(f.inputs) <= 1 IN
  [functions |-> SelectSeq(SelectSeq(fs, Keep), Emit)]

types_artifact(es, ss, native) ==
  [enums |-> es,
   structs |-> [i \in 1..Len(ss) |->
      [snippet |-> ss[i], native |-> is_native_name(native, ss[i].name)]]]

FinaliseOutput ==
  /\ Alive
  /\ call' = [op |-> "finalise_output", item |-> NoItem]
  /\ IF resolve_aliases_diverges(aliases, consts, structs, functions)
     THEN /\ ret' = "StackOverflow"
          /\ UNCHANGED <<consts, enums, structs, functions, native_types, opaque_types,
                         outputs, custom_consts>>
     ELSE LET cs == resolve_consts(aliases, consts)
              ss == resolve_structs(aliases, structs)
              fs == resolve_functions(aliases, functions)
              Keep(f) == is_interface_function(wrapper_function_blacklist, f.name, f)
              o1 == IF fs /= <<>>
                    THEN Insert(outputs, ClassFile,
                                class_artifact(fs, wrapper_function_blacklist))
                    ELSE outputs
              o2 == IF fs /= <<>> /\ SelectSeq(fs, Keep) /= <<>>
                    THEN Insert(o1, InterfaceFile,
                                interface_artifact(fs, wrapper_function_blacklist))
                    ELSE o1
              o3 == IF cs /= <<>> \/ custom_consts /= <<>>
                    THEN Insert(o2, ConstsFile, [consts |-> cs, custom |-> custom_consts])
                    ELSE o2
              types == types_enabled /\ (enums /= <<>> \/ ss /= <<>>)
              o4 == IF types
                    THEN Insert(o3, TypesFile, types_artifact(enums, ss, native_types))
                    ELSE o3
              o5 == IF utils_enabled THEN Insert(o4, UtilsFile, [utils |-> TRUE]) ELSE o4
          IN /\ ret' = "Ok"
             /\ outputs' = o5
             /\ functions' = <<>>
             /\ consts' = <<>>
             /\ custom_consts' = <<>>
             /\ enums' = IF types THEN <<>> ELSE enums
             /\ structs' = ss
             /\ opaque_types' = {}
             /\ native_types' = {}
  /\ UNCHANGED <<filter, filter_mode, aliases, wrapper_function_blacklist, types_enabled,
                 utils_enabled>>
  /\ UNCHANGED accepted

-----------------------------------------------------------------------------
(* Specification SpecT: transform_type applied to one type expression.     *)

TIdle == t_pc = "idle" /\ t_in = None /\ t_out = None
SwIdle == sw_pc = "idle" /\ sw_i = 0 /\ sw_run = FALSE /\ sw_n = 0
JInit == joutputs = EmptyMap /\ jcall = [op |-> "new", item |-> NoItem] /\ jret = "Ok"

InitT ==
  /\ t_pc = "call" /\ t_in \in TyInputs /\ t_out = None
  /\ CsInit /\ SwIdle /\ JInit

Transform ==
  /\ t_pc = "call"
  /\ t_out' = transform_type(t_in)
  /\ t_pc' = "done"
  /\ UNCHANGED <<t_in, csvars, swvars, jvars>>

NextT == Transform

SpecT == InitT /\ [][NextT]_vars

\* an Array whose direct element is an Array occurs somewhere in t
RECURSIVE HasNestedArray(_)
HasNestedArray(t) ==
  CASE t.k = "Array" -> t.ty.k = "Array" \/ HasNestedArray(t.ty)
    [] t.k = "Pointer" -> HasNestedArray(t.ty)
    [] t.k = "Function" ->
         \/ HasNestedArray(t.output)
         \/ \E i \in 1..Len(t.inputs) : HasNestedArray(t.inputs[i][2])
    [] OTHER -> FALSE

\* a Pointer whose pointee is User(_) or CChar occurs somewhere in t
RECURSIVE HasCollapsiblePointer(_)
HasCollapsiblePointer(t) ==
  CASE t.k = "Pointer" -> t.ty.k \in {"User", "CChar"} \/ HasCollapsiblePointer(t.ty)
    [] t.k = "Array" -> HasCollapsiblePointer(t.ty)
    [] t.k = "Function" ->
         \/ HasCollapsiblePointer(t.output)
         \/ \E i \in 1..Len(t.inputs) : HasCollapsiblePointer(t.inputs[i][2])
    [] OTHER -> FALSE

\* C5: transform_type never returns a type in which an Array has an Array as
\* its direct element; a fixed array whose element transforms to an array, or
\* whose size is not an integer literal, transforms to None.
C5_NoNestedArray ==
  t_pc = "done" =>
    /\ ~HasNestedArray(t_out)
    /\ (t_in.k = "Array" /\ transform_type(t_in.ty).k = "Array" => t_out = None)
    /\ (t_in.k = "Array" /\ t_in.size.e /= "Lit" => t_out = None)

C5_Witness ==
  /\ t_pc = "done"
  /\ t_in = TyArray(TyArray(TyPath("i32"), ExprLit(2)), ExprLit(2))
  /\ t_out = None

\* the table of primitive spellings as the specification lists it
PrimitiveOf ==
  ("bool" :> "Bool") @@ ("c_char" :> "CChar") @@ ("libc::c_char" :> "CChar")
    @@ ("std::os::raw::c_char" :> "CChar") @@ ("f32" :> "F32") @@ ("f64" :> "F64")
    @@ ("i8" :> "I8") @@ ("i16" :> "I16") @@ ("i32" :> "I32") @@ ("i64" :> "I64")
    @@ ("isize" :> "ISize") @@ ("u8" :> "U8") @@ ("u16" :> "U16") @@ ("u32" :> "U32")
    @@ ("u64" :> "U64") @@ ("usize" :> "USize") @@ ("c_void" :> "Unit")
    @@ ("libc::c_void" :> "Unit") @@ ("std::os::raw::c_void" :> "Unit")

\* C6: a path type transforms to the primitive its spelling has in the fixed
\* table, and to User(spelling), verbatim, for every other spelling; never None.
C6_PathTable ==
  t_pc = "done" /\ t_in.k = "Path" =>
    LET spelling == JoinSegs(t_in.segs, "::") IN
    IF spelling \in DOMAIN PrimitiveOf
    THEN t_out = Prim(PrimitiveOf[spelling])
    ELSE t_out = User(spelling)

C6_Witness ==
  /\ t_pc = "done"
  /\ t_in = TyPathOf(<<"std", "os", "raw", "c_void">>)
  /\ t_out = Prim("Unit")

\* C7: a pointer transforms to String over CChar, to User(x) over User(x), to
\* Pointer(T) over any other T and to None over a failed pointee; so no result
\* of transform_type holds Pointer(User(_)) or Pointer(CChar) at any depth.
C7_PointerCollapse ==
  t_pc = "done" =>
    /\ ~HasCollapsiblePointer(t_out)
    /\ t_in.k = "Ptr" =>
         LET p == transform_type(t_in.ty) IN
         CASE p = None -> t_out = None
           [] p.k = "CChar" -> t_out = Prim("String")
           [] p.k = "User" -> t_out = p
           [] OTHER -> t_out = Pointer(p)

C7_Witness ==
  /\ t_pc = "done"
  /\ t_in = TyPtr("mut", TyPtr("mut", TyPath("Foo")))
  /\ t_out = User("Foo")

-----------------------------------------------------------------------------
(* Specification Spec: the C# generator classifying declarations of every  *)
(* kind under a filter, and finalising.                                    *)

Int32 == TyPath("i32")
AddDecl == FnDecl(<<FnArg(Pat("a"), Int32), FnArg(Pat("b"), Int32)>>, RetTy(Int32))

FilterIdents == {"S"}
FilterModes == {"Blacklist", "Whitelist"}

TyItemsC ==
  {ItemTy("A", FALSE, Int32), ItemTy("A", TRUE, Int32), ItemTy("A", FALSE, TyTup)}
ConstItemsC == {ItemConst("K", Int32), ItemConst("K", TyNever)}
EnumItemsC ==
  {ItemEnum("E", at, g, <<"X", "Y">>) : at \in {{"repr(C)"}, {"repr(u8)"}}, g \in BOOLEAN}
StructItemsC ==
  {ItemStruct("S", at, g, "Struct", <<StructField("x", "", Int32)>>) :
     at \in {{"repr(C)"}, {}}, g \in BOOLEAN}
    \cup {ItemStruct("S", {"repr(C)"}, FALSE, sh, <<>>) : sh \in {"Tuple", "Unit"}}
    \cup {ItemStruct("S", {"repr(C)"}, FALSE, "Struct", <<StructField("x", "", TyNever)>>)}
FnItemsC ==
  {ItemFn("add", at, abi, g, AddDecl) :
     at \in {{"no_mangle"}, {}}, abi \in {"C", "Rust"}, g \in BOOLEAN}
    \cup {ItemFn("add", {"no_mangle"}, "C", FALSE, FnDecl(<<FnArg(Pat("a"), TyNever)>>, RetDefault))}

Init == CsInit /\ TIdle /\ SwIdle /\ JInit

CsFrame == UNCHANGED <<tvars, swvars, jvars>>

Next ==
  \/ \E id \in FilterIdents : Filter(id) /\ CsFrame
  \/ \E m \in FilterModes : ResetFilter(m) /\ CsFrame
  \/ \E it \in TyItemsC : accepted < MaxDecls /\ ParseTy(it) /\ CsFrame
  \/ \E it \in ConstItemsC : accepted < MaxDecls /\ ParseConst(it) /\ CsFrame
  \/ \E it \in EnumItemsC : accepted < MaxDecls /\ ParseEnum(it) /\ CsFrame
  \/ \E it \in StructItemsC : accepted < MaxDecls /\ ParseStruct(it) /\ CsFrame
  \/ \E it \in FnItemsC : accepted < MaxDecls /\ ParseFn(it) /\ CsFrame
  \/ FinaliseOutput /\ CsFrame

Spec == Init /\ [][Next]_vars

\* what every parse_* call is given and may change: the alias table, the
\* snippet collections, the NativeTypeSet and the output map
collected == <<aliases, consts, enums, structs, functions, native_types, outputs>>

CAbis == {"C", "Cdecl", "Stdcall", "Fastcall", "System"}

\* the filter skips the identifier
Filtered(flt, mode, ident) ==
  \/ mode = "Blacklist" /\ ident \in flt
  \/ mode = "Whitelist" /\ ident \notin flt

\* the declaration carries the markers its kind requires
Marked(item) ==
  CASE item.kind \in {"Enum", "Struct"} -> "repr(C)" \in item.attrs
    [] item.kind = "Fn" -> "no_mangle" \in item.attrs /\ item.abi \in CAbis
    [] OTHER -> TRUE

\* call c, made under the filter (flt, mode), is on a parameterized declaration
\* that is not filtered out and carries its markers
GenericCall(c, flt, mode) ==
  /\ c.item.kind \in {"Ty", "Enum", "Struct", "Fn"}
  /\ c.item.generics
  /\ ~Filtered(flt, mode, c.item.ident)
  /\ Marked(c.item)

\* C8, as stated: every such call returns Err, the type alias included.
C8_AllGenericsErr ==
  GenericCall(call, filter, filter_mode) => ret = "Err"

\* C8, amended: a parameterized enum, struct or function that is not filtered
\* out and carries its markers makes the parse_* call return Err, a
\* parameterized type alias makes parse_ty return Ok, and in both cases the
\* alias table and every snippet collection are left as they were.
C8_GenericsRejected ==
  [][GenericCall(call', filter', filter_mode') =>
       /\ ret' = IF call'.item.kind = "Ty" THEN "Ok" ELSE "Err"
       /\ UNCHANGED collected]_vars

C8_Witness ==
  /\ call.op = "parse_struct"
  /\ GenericCall(call, filter, filter_mode)
  /\ ret = "Err"
  /\ enums /= <<>>
  /\ structs = <<>>

\* call c, made under the filter (flt, mode), is a skippable exclusion
SkippedCall(c, flt, mode) ==
  /\ c.item.kind /= "None"
  /\ \/ Filtered(flt, mode, c.item.ident)
     \/ c.item.kind \in {"Enum", "Struct", "Fn"} /\ ~Marked(c.item)

\* C9: a parse_* call on a filtered-out identifier, parse_enum / parse_struct
\* without #[repr(C)] and parse_fn without #[no_mangle] or without a C ABI
\* return Ok and change neither the alias table, nor a snippet collection,
\* nor the NativeTypeSet, nor the output map.
C9_SkipsAreSilent ==
  [][SkippedCall(call', filter', filter_mode') =>
       ret' = "Ok" /\ UNCHANGED collected]_vars

C9_Witness ==
  /\ call.op = "parse_struct"
  /\ filter_mode = "Whitelist"
  /\ call.item.ident \notin filter
  /\ Marked(call.item)
  /\ ~call.item.generics
  /\ call.item.shape = "Struct"
  /\ ret = "Ok"
  /\ structs = <<>>
  /\ enums /= <<>>

-----------------------------------------------------------------------------
(* Specification SpecStructs: the C# generator collecting structs that     *)
(* refer to each other, over several runs.                                 *)

StructNamesN == {"A", "B", "C"}
FieldListsN ==
  {<<StructField("x", "", Int32)>>,
   <<StructField("data", "_ptr", TyPtr("const", TyPath("u8"))),
     StructField("data", "_len", TyPath("usize"))>>}
    \cup {<<StructField("c", "", TyPath(n))>> : n \in StructNamesN}
StructItemsN ==
  {ItemStruct(n, {"repr(C)"}, FALSE, "Struct", fl) : n \in StructNamesN, fl \in FieldListsN}

NextStructs ==
  \/ \E it \in StructItemsN : Len(structs) < MaxStructs /\ ParseStruct(it) /\ CsFrame
  \/ FinaliseOutput /\ CsFrame

SpecStructs == Init /\ [][NextStructs]_vars

\* a type with its Pointer layers taken off
RECURSIVE Unwrapped(_)
Unwrapped(ty) == IF ty.k = "Pointer" THEN Unwrapped(ty.ty) ELSE ty

\* the names the rule makes native, given that the names in N are native
NativeByRule(ss, N) ==
  {ss[i].name : i \in {i \in 1..Len(ss) :
     \E j \in 1..Len(ss[i].fields) :
       \/ ss[i].fields[j].dyn
       \/ LET u == Unwrapped(ss[i].fields[j].ty) IN
          u.k = "User" /\ u.name \in N}}

LeastFixedPoint(ss) ==
  LET names == {ss[i].name : i \in 1..Len(ss)}
      Closed(N) == NativeByRule(ss, N) \subseteq N IN
  CHOOSE N \in SUBSET names :
    Closed(N) /\ \A M \in SUBSET names : Closed(M) => N \subseteq M

\* C1: when parse_struct has collected a struct and resolve_native_types has
\* returned, the NativeTypeSet is the least fixed point of the rule over the
\* collected structs, in whatever order they were collected.
C1_NativeIsLeastFixedPoint ==
  call.op = "parse_struct" /\ ret = "Ok" =>
    native_types = LeastFixedPoint(structs)

\* three structs collected so that each sweep can mark only one of them
C1_Witness ==
  /\ call.op = "parse_struct" /\ ret = "Ok"
  /\ Len(structs) = 3
  /\ structs[1].fields[1].ty = User(structs[2].name)
  /\ structs[2].fields[1].ty = User(structs[3].name)
  /\ structs[3].fields[1].dyn
  /\ native_types = {"A", "B", "C"}

-----------------------------------------------------------------------------
(* Specification SpecAlias: the C# generator collecting type aliases and   *)
(* declarations whose types name them, and finalising.                     *)

\* alias A is declared as a primitive, as a struct name or as itself; alias B
\* as a primitive, as A, as itself or as an array of A
TyItemsA ==
  {ItemTy("A", FALSE, t) : t \in {Int32, TyPath("A"), TyPath("C")}}
    \cup {ItemTy("B", FALSE, t) :
            t \in {Int32, TyPath("A"), TyPath("B"), TyArray(TyPath("A"), ExprLit(2))}}
ConstItemsA == {ItemConst("K", TyPath("B"))}
StructItemsA ==
  {ItemStruct("B", {"repr(C)"}, FALSE, "Struct", <<StructField("c", "", TyPath("A"))>>)}
FnItemsA ==
  {ItemFn("f", {"no_mangle"}, "C", FALSE,
          FnDecl(<<FnArg(Pat("p"), TyPtr("mut", TyArray(TyPath("B"), ExprLit(2))))>>,
                 RetTy(TyPath("A"))))}

NextAlias ==
  \/ \E it \in TyItemsA : ParseTy(it) /\ CsFrame
  \/ \E it \in ConstItemsA : accepted < MaxDecls /\ ParseConst(it) /\ CsFrame
  \/ \E it \in StructItemsA : accepted < MaxDecls /\ ParseStruct(it) /\ CsFrame
  \/ \E it \in FnItemsA : accepted < MaxDecls /\ ParseFn(it) /\ CsFrame
  \/ FinaliseOutput /\ CsFrame

SpecAlias == Init /\ [][NextAlias]_vars

\* C2: applying resolve_aliases to collections it has already been applied to
\* leaves every const type, struct name, field type, parameter type and
\* return type as the first application produced it.
C2_ResolveIdempotent ==
  ~resolve_aliases_diverges(aliases, consts, structs, functions) =>
    LET cs == resolve_consts(aliases, consts)
        ss == resolve_structs(aliases, structs)
        fs == resolve_functions(aliases, functions) IN
    /\ resolve_consts(aliases, cs) = cs
    /\ resolve_structs(aliases, ss) = ss
    /\ resolve_functions(aliases, fs) = fs

\* C3: lookup_alias returns, or fails, after a bounded number of steps on
\* every name of the alias table, cyclic chains included.
C3_LookupTerminates ==
  \A n \in DOMAIN aliases : lookup_alias(aliases, n) /= Diverges

-----------------------------------------------------------------------------
(* Specification SpecSweep: resolve_native_types stepped through, one      *)
(* struct of the for loop at a time, from any struct collection and any    *)
(* NativeTypeSet.                                                          *)

Field(name, ty, dyn) == [name |-> name, ty |-> ty, dyn |-> dyn]
SweepNames == {"A", "B"}
SweepFieldLists ==
  {<<Field("x", Prim("I32"), FALSE)>>,
   <<Field("data_ptr", Pointer(Prim("U8")), TRUE)>>,
   <<Field("p", Pointer(Pointer(User("B"))), FALSE)>>}
    \cup {<<Field("c", User(n), FALSE)>> : n \in SweepNames}
SweepSnippets == {[name |-> n, fields |-> fl] : n \in SweepNames, fl \in SweepFieldLists}
SweepCollections == UNION {[1..n -> SweepSnippets] : n \in 0..MaxSweepStructs}

InitSweep ==
  /\ structs \in SweepCollections
  /\ native_types \in SUBSET SweepNames
  /\ sw_pc = "while" /\ sw_run = TRUE /\ sw_i = 0 /\ sw_n = 0
  /\ filter = {} /\ filter_mode = "Blacklist" /\ wrapper_function_blacklist = {}
  /\ types_enabled = TRUE /\ utils_enabled = TRUE /\ opaque_types = {}
  /\ custom_consts = <<>> /\ consts = <<>> /\ enums = <<>> /\ functions = <<>>
  /\ aliases = EmptyMap /\ outputs = EmptyMap
  /\ call = [op |-> "resolve_native_types", item |-> NoItem]
  /\ ret = "Ok" /\ accepted = 0
  /\ TIdle /\ JInit

SweepFrame ==
  UNCHANGED <<tvars, jvars, filter, filter_mode, aliases, consts, enums, structs,
              functions, opaque_types, outputs, call, ret, accepted,
              wrapper_function_blacklist, types_enabled, utils_enabled, custom_consts>>

\* `while run { run = false; ...`
SweepEnter ==
  /\ sw_pc = "while" /\ sw_run
  /\ sw_run' = FALSE /\ sw_i' = 1 /\ sw_pc' = "for"
  /\ sw_n' = IF sw_n < MaxSweeps THEN sw_n + 1 ELSE sw_n
  /\ UNCHANGED native_types

\* the while condition fails: resolve_native_types returns
SweepExit ==
  /\ sw_pc = "while" /\ ~sw_run
  /\ sw_pc' = "done"
  /\ UNCHANGED <<sw_run, sw_i, sw_n, native_types>>

\* one iteration of `for snippet in &self.structs`
SweepStruct ==
  /\ sw_pc = "for" /\ sw_i <= Len(structs)
  /\ LET r == sweep_struct(native_types, sw_run, structs[sw_i]) IN
     native_types' = r.native /\ sw_run' = r.run
  /\ sw_i' = sw_i + 1
  /\ UNCHANGED <<sw_pc, sw_n>>

\* the for loop is exhausted
SweepEnd ==
  /\ sw_pc = "for" /\ sw_i > Len(structs)
  /\ sw_pc' = "while"
  /\ UNCHANGED <<sw_run, sw_i, sw_n, native_types>>

NextSweep ==
  \/ SweepEnter /\ SweepFrame
  \/ SweepExit /\ SweepFrame
  \/ SweepStruct /\ SweepFrame
  \/ SweepEnd /\ SweepFrame

\* the loop is sequential code: it keeps running until it returns
SpecSweep == InitSweep /\ [][NextSweep]_vars /\ WF_vars(NextSweep)

\* C4: from every struct collection and every initial NativeTypeSet the sweep
\* loop reaches a sweep that marks nothing and returns, and no step of it
\* removes a name from the NativeTypeSet.
C4_SweepTerminates ==
  /\ <>(sw_pc = "done")
  /\ [][native_types \subseteq native_types']_vars

\* a returned propagation that needed a sweep for each of two structs
C4_Witness ==
  /\ sw_pc = "done"
  /\ Len(structs) = 2
  /\ structs[1].fields[1].ty = User(structs[2].name)
  /\ structs[2].fields[1].dyn
  /\ structs[1].name /= structs[2].name
  /\ native_types = {"A", "B"}

-----------------------------------------------------------------------------
(* The Java generator (java/mod.rs).  LangJava has no fields: its only     *)
(* state is the output map the caller hands to every call.  A file's       *)
(* content is the sequence of the chunks of text pushed into it.           *)

JOk(v) == [r |-> "Ok", v |-> v]
JErr == [r |-> "Err"]
unwrap_or_default(opt) == IF opt = None THEN "" ELSE opt.val

\* inflector's to_class_case, on the names the model uses
to_class_case(s) ==
  CASE s = "int" -> "Int" [] s = "byte" -> "Byte" [] s = "short" -> "Short"
    [] s = "long" -> "Long" [] s = "float" -> "Float" [] s = "double" -> "Double"
    [] s = "void" -> "Void" [] s = "bool" -> "Bool" [] s = "intptr_t" -> "IntptrT"
    [] s = "foo" -> "Foo" [] s = "point" -> "Point"
    [] OTHER -> s

\* inflector's to_camel_case, on the names the model uses
to_camel_case(s) ==
  CASE s = "user_data" -> "userData" [] s = "data_len" -> "dataLen"
    [] s = "foo_len" -> "fooLen"
    [] s = "data_ptr" -> "dataPtr" [] s = "o_cb" -> "oCb"
    [] s = "Foo" -> "foo"
    [] OTHER -> s

is_user_data_arg(arg) ==
  pat_to_string(arg.pat) = "user_data" /\ ty_to_string(arg.ty) = "*mut c_void"

is_result_arg(arg) ==
  pat_to_string(arg.pat) = "result" /\ ty_to_string(arg.ty) = "*const FfiResult"

is_ptr_len_arg_any_usize(arg) == ty_to_string(arg.ty) = "usize"

is_ptr_len_arg(arg) ==
  /\ ty_to_string(arg.ty) = "usize"
  /\ \/ arg.pat.suf = "_len"
     \/ pat_to_string(arg.pat) = "len"
     \/ pat_to_string(arg.pat) = "size"

\* is_array_arg(args[i], the argument after it, if any)
is_array_arg(args, i) ==
  /\ args[i].ty.k = "Ptr"
  /\ ~is_result_arg(args[i])
  /\ i < Len(args)
  /\ is_ptr_len_arg(args[i + 1])

libc_ty_to_java(ty) ==
  CASE ty = "c_void" -> "void" [] ty = "c_float" -> "float" [] ty = "c_double" -> "double"
    [] ty \in {"c_char", "c_schar", "c_uchar"} -> "byte"
    [] ty \in {"c_short", "c_ushort"} -> "short"
    [] ty \in {"c_int", "c_uint"} -> "int"
    [] ty \in {"c_long", "c_ulong"} -> "long"
    [] OTHER -> ty

osraw_ty_to_java(ty) ==
  CASE ty = "c_void" -> "void" [] ty \in {"c_char", "c_schar", "c_uchar"} -> "byte"
    [] ty = "c_double" -> "double" [] ty = "c_float" -> "float"
    [] ty \in {"c_int", "c_uint"} -> "int"
    [] ty \in {"c_long", "c_ulong"} -> "long"
    [] ty \in {"c_short", "c_ushort"} -> "short"
    [] OTHER -> ty

rust_ty_to_java(ty) ==
  CASE ty = "()" -> "void" [] ty = "f32" -> "float" [] ty = "f64" -> "double"
    [] ty \in {"i8", "u8"} -> "byte" [] ty \in {"i16", "u16"} -> "short"
    [] ty \in {"i32", "u32"} -> "int" [] ty \in {"i64", "u64", "usize"} -> "long"
    [] ty = "isize" -> "intptr_t"
    [] OTHER -> libc_ty_to_java(ty)

path_to_java(segs) ==
  IF Len(segs) = 0 THEN JErr
  ELSE IF Len(segs) > 1 THEN
    LET ty == segs[Len(segs)]
        module == JoinSegs(SubSeq(segs, 1, Len(segs) - 1), "::") IN
    CASE module = "libc" -> JOk(Some(libc_ty_to_java(ty)))
      [] module = "std::os::raw" -> JOk(Some(osraw_ty_to_java(ty)))
      [] OTHER -> JErr
  ELSE JOk(Some(rust_ty_to_java(segs[1])))

RECURSIVE anon_rust_to_java(_)
anon_rust_to_java(ty) ==
  CASE ty.k = "BareFn" -> JErr
    [] ty.k = "Ptr" ->
         IF ty_to_string(ty.ty) = "c_char" THEN JOk(Some("String"))
         ELSE anon_rust_to_java(ty.ty)
    [] ty.k = "Path" -> path_to_java(ty.segs)
    [] OTHER -> IF ty_to_string(ty) = "()" THEN JOk(Some("void")) ELSE JErr

\* callback_name's loop from the i-th input on, with the name built so far;
\* callback_name_arg is the loop's body once the argument's type r is known
RECURSIVE callback_name_from(_, _, _)
RECURSIVE callback_name_arg(_, _, _, _, _)
callback_name_arg(inputs, i, basename, r, arr) ==
  IF r.r = "Err" THEN JErr
  ELSE callback_name_from(inputs, IF arr THEN i + 2 ELSE i + 1,
         basename \o (IF r.v = None THEN "" ELSE to_class_case(r.v.val))
                  \o (IF arr THEN "Array" ELSE ""))

callback_name_from(inputs, i, basename) ==
  IF i > Len(inputs) THEN JOk(basename)
  ELSE IF is_user_data_arg(inputs[i]) \/ is_result_arg(inputs[i])
  THEN callback_name_from(inputs, i + 1, basename)
  ELSE callback_name_arg(inputs, i, basename, anon_rust_to_java(inputs[i].ty),
                         is_array_arg(inputs, i))

callback_name(inputs) == callback_name_from(inputs, 1, "Callback")

\* Ok(Some(name)) of a callback_name result
some_name(r) == IF r.r = "Err" THEN JErr ELSE JOk(Some(r.v))

callback_arg_to_java(fn_ty) ==
  IF ~is_extern(fn_ty.abi) THEN JOk(None)
  ELSE IF fn_ty.lifetimes /= <<>> THEN JErr
  ELSE some_name(callback_name(fn_ty.decl.inputs))

rust_to_java(ty) ==
  IF ty.k = "BareFn" THEN callback_arg_to_java(ty) ELSE anon_rust_to_java(ty)

\* callback_to_java's loop from the i-th of the filtered arguments on;
\* callback_args_arg is the loop's body once the argument's type r is known:
\* `try_some!` yields the value of Ok(Some(v)) and returns anything else
RECURSIVE callback_args_from(_, _, _)
RECURSIVE callback_args_arg(_, _, _, _, _)
callback_args_arg(args, i, acc, r, arr) ==
  IF r.r = "Err" \/ r.v = None THEN r
  ELSE callback_args_from(args, IF arr THEN i + 2 ELSE i + 1,
         Append(acc, <<r.v.val \o (IF arr THEN "[]" ELSE ""),
                       to_camel_case(pat_to_string(args[i].pat))>>))

callback_args_from(args, i, acc) ==
  IF i > Len(args) THEN JOk(Some(acc))
  ELSE callback_args_arg(args, i, acc, rust_to_java(args[i].ty), is_array_arg(args, i))

\* the arguments that are not `user_data: *mut c_void`
without_user_data(args) == SelectSeq(args, LAMBDA a : ~is_user_data_arg(a))

callback_to_java(fn_ty) ==
  IF ~is_extern(fn_ty.abi) THEN JOk(None)
  ELSE IF fn_ty.lifetimes /= <<>> THEN JErr
  ELSE callback_args_from(without_user_data(fn_ty.decl.inputs), 1, <<>>)

\* the text of a file is the sequence of its chunks; "" is the empty sequence
NoText == <<>>
InterfaceChunk(name, types) == [k |-> "interface", name |-> name, call |-> types]
NativeChunk(ret_ty, name, args) ==
  [k |-> "native", ret |-> ret_ty, name |-> name, args |-> args]
ClassChunk(name, braces, fields) ==
  [k |-> "class", name |-> name, braces |-> braces, fields |-> fields]
BindingsChunk(body) == [k |-> "bindings", body |-> body]

\* the interface text around the types callback_to_java returned
callback_interface(class_name, types) ==
  IF types.r = "Err" \/ types.v = None THEN types
  ELSE JOk(Some(<<InterfaceChunk(class_name, types.v.val)>>))

transform_callback(ty, class_name) ==
  IF ty.k = "BareFn" THEN callback_interface(class_name, callback_to_java(ty)) ELSE JErr

BindingsFile == "NativeBindings.java"

\* `outputs.insert(cb_file, cb_output)` once transform_callback has returned
callback_file_insert(outs, cb_file, cb_output) ==
  IF cb_output.r = "Err" THEN [r |-> "Err", outputs |-> outs]
  ELSE [r |-> "Ok",
        outputs |-> Insert(outs, cb_file,
                           IF cb_output.v = None THEN NoText ELSE cb_output.v.val)]

callback_file_for_overwrite(ty, outs, cb_class) ==
  IF cb_class.r = "Err" THEN [r |-> "Err", outputs |-> outs]
  ELSE callback_file_insert(outs, cb_class.v \o ".java", transform_callback(ty, cb_class.v))

\* what the argument loop does for a function pointer argument once
\* callback_name has returned cb_class
callback_file_for(ty, outs, cb_class) ==
  IF cb_class.r = "Err" THEN [r |-> "Err", outputs |-> outs]
  ELSE IF (cb_class.v \o ".java") \in DOMAIN outs THEN [r |-> "Ok", outputs |-> outs]
  ELSE callback_file_insert(outs, cb_class.v \o ".java", transform_callback(ty, cb_class.v))

callback_file_step(ty, outs) == callback_file_for(ty, outs, callback_name(ty.decl.inputs))

\* the body of the argument loop of transform_native_fn for the i-th of the
\* filtered arguments, once rust_to_java has returned r: the argument
\* string, the index of the next argument to read and the output map
native_arg_entry(fn_args, i, r, arr, cb) ==
  [r |-> cb.r,
   entry |-> <<unwrap_or_default(r.v) \o (IF arr THEN "[]" ELSE ""),
               to_camel_case(pat_to_string(fn_args[i].pat))>>,
   next |-> IF arr THEN i + 2 ELSE i + 1,
   outputs |-> cb.outputs]

native_arg_with(fn_args, i, outs, r) ==
  IF r.r = "Err" THEN [r |-> "Err", outputs |-> outs]
  ELSE native_arg_entry(fn_args, i, r, is_array_arg(fn_args, i),
         IF fn_args[i].ty.k = "BareFn" THEN callback_file_step(fn_args[i].ty, outs)
         ELSE [r |-> "Ok", outputs |-> outs])

native_arg_step(fn_args, i, outs) ==
  native_arg_with(fn_args, i, outs, rust_to_java(fn_args[i].ty))

\* the argument loop of transform_native_fn from the i-th of the filtered
\* arguments on: the argument strings so far and the output map so far
RECURSIVE native_args_from(_, _, _, _)
RECURSIVE native_args_next(_, _, _)
native_args_next(fn_args, args_str, step) ==
  IF step.r = "Err" THEN [r |-> "Err", args |-> args_str, outputs |-> step.outputs]
  ELSE native_args_from(fn_args, step.next, Append(args_str, step.entry), step.outputs)

native_args_from(fn_args, i, args_str, outs) ==
  IF i > Len(fn_args) THEN [r |-> "Ok", args |-> args_str, outputs |-> outs]
  ELSE native_args_next(fn_args, args_str, native_arg_step(fn_args, i, outs))

\* the end of transform_native_fn: the declaration appended to
\* NativeBindings.java once the return type rt is known
native_fn_emit(name, loop, rt) ==
  IF rt.r = "Err" THEN [r |-> "Err", outputs |-> loop.outputs]
  ELSE [r |-> "Ok",
        outputs |->
          IF BindingsFile \in DOMAIN loop.outputs
          THEN [loop.outputs EXCEPT ![BindingsFile] =
                  @ \o <<NativeChunk(unwrap_or_default(rt.v), to_camel_case(name), loop.args)>>]
          ELSE Insert(loop.outputs, BindingsFile,
                  <<NativeChunk(unwrap_or_default(rt.v), to_camel_case(name), loop.args)>>)]

\* transform_native_fn after its argument loop
native_fn_return(fn_decl, name, loop) ==
  IF loop.r = "Err" THEN [r |-> "Err", outputs |-> loop.outputs]
  ELSE IF fn_decl.output.r = "Ty" /\ fn_decl.output.ty = TyNever
  THEN [r |-> "Err", outputs |-> loop.outputs]
  ELSE native_fn_emit(name, loop,
         IF fn_decl.output.r = "Default" THEN JOk(Some("public static native void"))
         ELSE rust_to_java(fn_decl.output.ty))

\* transform_native_fn: the result and the output map it leaves behind
transform_native_fn(fn_decl, name, outs) ==
  native_fn_return(fn_decl, name,
                   native_args_from(without_user_data(fn_decl.inputs), 1, <<>>, outs))

\* the caller's output map and the result after transform_native_fn
JReturn(res) == jret' = res.r /\ joutputs' = res.outputs

\* LangJava::parse_fn
JParseFn(item) ==
  /\ jcall' = [op |-> "parse_fn", item |-> item]
  /\ IF ~parse_attr_no_mangle(item.attrs) THEN
       jret' = "Ok" /\ UNCHANGED joutputs
     ELSE IF item.kind /= "Fn" THEN
       jret' = "Err" /\ UNCHANGED joutputs
     ELSE IF ~is_extern(item.abi) THEN
       jret' = "Ok" /\ UNCHANGED joutputs
     ELSE IF is_parameterized(item.generics) THEN
       jret' = "Err" /\ UNCHANGED joutputs
     ELSE JReturn(transform_native_fn(item.decl, item.ident, joutputs))

\* the field loop of LangJava::parse_struct
RECURSIVE java_fields_from(_, _, _)
java_fields_from(fields, i, acc) ==
  IF i > Len(fields) THEN JOk(acc)
  ELSE
    LET r == rust_to_java(fields[i].ty) IN
    IF r.r = "Err" THEN JErr
    ELSE java_fields_from(fields, i + 1,
           Append(acc, <<unwrap_or_default(r.v),
                         to_camel_case(pat_to_string(fields[i].ident))>>))

JParseStruct_any_tuple(item) ==
  /\ jcall' = [op |-> "parse_struct", item |-> item]
  /\ IF ~parse_attr_repr_c(item.attrs) THEN
       jret' = "Ok" /\ UNCHANGED joutputs
     ELSE IF is_parameterized(item.generics) THEN
       jret' = "Err" /\ UNCHANGED joutputs
     ELSE
       /\ jret' = "Ok"
       /\ joutputs' = Insert(joutputs, to_class_case(item.ident) \o ".java",
                             <<ClassChunk(to_class_case(item.ident), FALSE, <<>>)>>)

\* LangJava::parse_struct
JParseStruct(item) ==
  /\ jcall' = [op |-> "parse_struct", item |-> item]
  /\ LET name == to_class_case(item.ident)
         file == name \o ".java" IN
     IF ~parse_attr_repr_c(item.attrs) THEN
       jret' = "Ok" /\ UNCHANGED joutputs
     ELSE IF item.kind /= "Struct" THEN
       jret' = "Err" /\ UNCHANGED joutputs
     ELSE IF is_parameterized(item.generics) THEN
       jret' = "Err" /\ UNCHANGED joutputs
     ELSE IF item.shape = "Struct" THEN
       LET fs == java_fields_from(item.fields, 1, <<>>) IN
       IF fs.r = "Err" THEN jret' = "Err" /\ UNCHANGED joutputs
       ELSE /\ jret' = "Ok"
            /\ joutputs' = Insert(joutputs, file, <<ClassChunk(name, TRUE, fs.v)>>)
     ELSE IF item.shape = "Tuple" /\ Len(item.fields) = 1 THEN
       /\ jret' = "Ok"
       /\ joutputs' = Insert(joutputs, file, <<ClassChunk(name, FALSE, <<>>)>>)
     ELSE
       jret' = "Err" /\ UNCHANGED joutputs

JFinaliseOutput_lenient ==
  /\ jcall' = [op |-> "finalise_output", item |-> NoItem]
  /\ jret' = "Ok"
  /\ joutputs' = IF BindingsFile \in DOMAIN joutputs
                 THEN [joutputs EXCEPT ![BindingsFile] = <<BindingsChunk(@)>>]
                 ELSE joutputs

\* LangJava::finalise_output
JFinaliseOutput ==
  /\ jcall' = [op |-> "finalise_output", item |-> NoItem]
  /\ IF BindingsFile \in DOMAIN joutputs
     THEN /\ joutputs' = [joutputs EXCEPT ![BindingsFile] = <<BindingsChunk(@)>>]
          /\ jret' = "Ok"
     ELSE jret' = "Err" /\ UNCHANGED joutputs

-----------------------------------------------------------------------------
(* SpecJava: the Java generator called on function and struct items, then  *)
(* finalised, over one output map.                                         *)

UserDataArg == FnArg(Pat("user_data"), TyPtr("mut", TyPath("c_void")))
BytePtr == TyPtr("const", TyPath("u8"))
UnsupportedTy == TyArray(TyPath("u8"), ExprLit(4))
IntCallback(abi) ==
  TyBareFn(abi, FnDecl(<<UserDataArg, FnArg(Pat("x"), Int32)>>, RetDefault))
BytesCallback ==
  TyBareFn("C", FnDecl(<<UserDataArg, FnArg(Pat("data"), BytePtr),
                         FnArg(Ident("data", "_len"), TyPath("usize"))>>, RetDefault))

FnDeclsJ ==
  {AddDecl,
   FnDecl(<<UserDataArg, FnArg(Pat("o_cb"), IntCallback("C"))>>, RetDefault),
   FnDecl(<<FnArg(Pat("o_cb"), IntCallback("Rust"))>>, RetDefault),
   FnDecl(<<FnArg(Pat("o_cb"), BytesCallback)>>, RetDefault),
   FnDecl(<<FnArg(Pat("data"), BytePtr), FnArg(Ident("data", "_len"), TyPath("usize"))>>,
          RetTy(TyPtr("const", TyPath("c_char")))),
   FnDecl(<<FnArg(Pat("o_cb"), IntCallback("C")), FnArg(Pat("bad"), UnsupportedTy)>>,
          RetDefault),
   FnDecl(<<FnArg(Pat("bad"), UnsupportedTy), FnArg(Pat("o_cb"), IntCallback("C"))>>,
          RetDefault),
   FnDecl(<<FnArg(Pat("o_cb"), IntCallback("C"))>>, RetTy(TyNever))}

FnItemsJ ==
  {ItemFn("run", {"no_mangle"}, "C", FALSE, d) : d \in FnDeclsJ}
  \cup {ItemFn("run", {}, "C", FALSE, AddDecl),
        ItemFn("run", {"no_mangle"}, "Rust", FALSE, AddDecl),
        ItemFn("run", {"no_mangle"}, "C", TRUE, AddDecl)}

StructItemsJ ==
  {ItemStruct("Foo", {"repr(C)"}, FALSE, "Struct", <<StructField("x", "", Int32)>>),
   ItemStruct("Foo", {"repr(C)"}, FALSE, "Struct",
              <<StructField("data", "", BytePtr),
                StructField("data", "_len", TyPath("usize"))>>),
   ItemStruct("Foo", {"repr(C)"}, FALSE, "Struct", <<StructField("x", "", UnsupportedTy)>>),
   ItemStruct("Foo", {"repr(C)"}, TRUE, "Struct", <<StructField("x", "", Int32)>>),
   ItemStruct("Foo", {}, FALSE, "Struct", <<StructField("x", "", Int32)>>),
   ItemStruct("Foo", {"repr(C)"}, FALSE, "Tuple", <<StructField("", "", Int32)>>),
   ItemStruct("Foo", {"repr(C)"}, FALSE, "Unit", <<>>)}

\* the native declarations in a text, and how often it has been wrapped
RECURSIVE DeclCount(_)
DeclCount(text) ==
  IF text = <<>> THEN 0
  ELSE (CASE Head(text).k = "native" -> 1
          [] Head(text).k = "bindings" -> DeclCount(Head(text).body)
          [] OTHER -> 0) + DeclCount(Tail(text))

RECURSIVE WrapCount(_)
WrapCount(text) ==
  IF text = <<>> THEN 0
  ELSE (IF Head(text).k = "bindings" THEN 1 + WrapCount(Head(text).body) ELSE 0)
       + WrapCount(Tail(text))

Bindings == IF BindingsFile \in DOMAIN joutputs THEN joutputs[BindingsFile] ELSE NoText

InitJava == CsInit /\ TIdle /\ SwIdle /\ JInit

JavaFrame == UNCHANGED <<tvars, csvars, swvars>>

NextJava ==
  \/ \E item \in FnItemsJ : DeclCount(Bindings) < MaxJavaDecls /\ JParseFn(item) /\ JavaFrame
  \/ \E item \in StructItemsJ : JParseStruct(item) /\ JavaFrame
  \/ WrapCount(Bindings) < MaxJavaRuns /\ JFinaliseOutput /\ JavaFrame

SpecJava == InitJava /\ [][NextJava]_vars

\* C10: whenever a parse_* call returns Err, the output map and the collected
\* state are exactly what they were before the call
C10_ErrLeavesNoTrace ==
  [][/\ (jcall'.op \in {"parse_fn", "parse_struct"} /\ jret' = "Err"
           => joutputs' = joutputs)
     /\ (call'.op \in {"parse_ty", "parse_const", "parse_enum", "parse_struct", "parse_fn"}
           /\ ret' = "Err"
           => UNCHANGED <<outputs, aliases, consts, enums, structs, functions,
                          native_types, opaque_types, custom_consts, filter,
                          filter_mode>>)]_vars

-----------------------------------------------------------------------------
(* SpecPairs: LangJava::parse_fn on functions whose parameter lists hold   *)
(* pointer parameters followed, or not, by length parameters.              *)

Usize == TyPath("usize")
ResultArg == FnArg(Pat("result"), TyPtr("const", TyPath("FfiResult")))

FnDeclsP ==
  {FnDecl(<<FnArg(Pat("data"), BytePtr), FnArg(Ident("data", "_len"), Usize)>>, RetDefault),
   FnDecl(<<FnArg(Pat("ptr"), BytePtr), FnArg(Ident("foo", "_len"), Usize)>>, RetDefault),
   FnDecl(<<FnArg(Pat("ptr"), BytePtr), FnArg(Pat("len"), Usize)>>, RetDefault),
   FnDecl(<<FnArg(Pat("ptr"), BytePtr), FnArg(Pat("unrelated"), Usize)>>, RetDefault),
   FnDecl(<<FnArg(Pat("a"), Int32), FnArg(Pat("ptr"), BytePtr), FnArg(Pat("size"), Usize),
            FnArg(Pat("b"), BytePtr)>>, RetDefault),
   FnDecl(<<ResultArg, FnArg(Ident("data", "_len"), Usize)>>, RetDefault),
   FnDecl(<<UserDataArg, FnArg(Pat("len"), Usize)>>, RetDefault)}

FnItemsP == {ItemFn(n, {"no_mangle"}, "C", FALSE, d) : n \in {"run", "go"}, d \in FnDeclsP}

NextPairs ==
  \E item \in FnItemsP : DeclCount(Bindings) < MaxJavaDecls /\ JParseFn(item) /\ JavaFrame

SpecPairs == InitJava /\ [][NextPairs]_vars

\* the parameters of the declaration the last parse_fn call appended
LastNative == Bindings[Len(Bindings)]
EmittedNames == {LastNative.args[i][2] : i \in 1..Len(LastNative.args)}
EmittedAs(arg) ==
  {LastNative.args[i][1] : i \in {j \in 1..Len(LastNative.args) :
                                    LastNative.args[j][2] = to_camel_case(pat_to_string(arg.pat))}}
JavaTypeOf(arg) == unwrap_or_default(rust_to_java(arg.ty).v)

\* a usize parameter named by the length convention: *_len, len or size
LengthNamed(arg) ==
  /\ ty_to_string(arg.ty) = "usize"
  /\ arg.pat.suf = "_len" \/ pat_to_string(arg.pat) \in {"len", "size"}

\* a pointer parameter and the usize parameter after it came out as one array
\* parameter, or as two parameters of their own
OneArrayParam(ptr, len) ==
  /\ EmittedAs(ptr) = {JavaTypeOf(ptr) \o "[]"}
  /\ EmittedAs(len) = {}
TwoParams(ptr, len) ==
  /\ EmittedAs(ptr) = {JavaTypeOf(ptr)}
  /\ EmittedAs(len) = {JavaTypeOf(len)}

EmittedFn == jcall.op = "parse_fn" /\ jret = "Ok" /\ Bindings /= NoText

-----------------------------------------------------------------------------
(* SpecCallbacks: extract_callback applied to one intermediate type and    *)
(* extract_callbacks applied to one parameter list.                        *)

UnitPtr == Pointer(Prim("Unit"))
CallbackTys ==
  {Function(<<<<"user_data", UnitPtr>>, <<"x", Prim("I32")>>>>, Prim("Unit")),
   Function(<<<<"user_data", UnitPtr>>>>, Prim("I32")),
   Function(<<<<"ctx", UnitPtr>>, <<"x", Prim("I32")>>>>, Prim("Unit")),
   Function(<<<<"user_data", Pointer(Prim("I32"))>>>>, Prim("Unit")),
   Function(<<<<"user_data", Prim("Unit")>>>>, Prim("Unit")),
   Function(<<<<"x", Prim("I32")>>, <<"user_data", UnitPtr>>>>, Prim("Unit")),
   Function(<<>>, Prim("Unit"))}
ParamTys ==
  CallbackTys \cup
  {Prim("I32"), UnitPtr, User("user_data"),
   Pointer(Function(<<<<"user_data", UnitPtr>>>>, Prim("Unit")))}

ParamNames == <<"a", "b", "c", "d">>
RECURSIVE ParamLists(_)
ParamLists(n) ==
  IF n = 0 THEN {<<>>}
  ELSE ParamLists(n - 1) \cup
       {Append(l, <<ParamNames[n], ty>>) : l \in {m \in ParamLists(n - 1) : Len(m) = n - 1},
                                          ty \in ParamTys}

InitCallbacks ==
  /\ \/ t_pc = "one" /\ t_in \in ParamTys
     \/ t_pc = "list" /\ t_in \in ParamLists(MaxParams)
  /\ t_out = None
  /\ CsInit /\ SwIdle /\ JInit

ExtractCallback ==
  /\ t_pc = "one"
  /\ t_out' = extract_callback(t_in)
  /\ t_pc' = "done_one"
  /\ UNCHANGED <<t_in, csvars, swvars, jvars>>

ExtractCallbacks ==
  /\ t_pc = "list"
  /\ t_out' = extract_callbacks(t_in)
  /\ t_pc' = "done_list"
  /\ UNCHANGED <<t_in, csvars, swvars, jvars>>

NextCallbacks ==
  \/ ExtractCallback
  \/ ExtractCallbacks

SpecCallbacks == InitCallbacks /\ [][NextCallbacks]_vars

\* a Function type whose first parameter is `user_data` of type Pointer(Unit)
IsCallbackTy(ty) ==
  /\ ty.k = "Function"
  /\ Len(ty.inputs) > 0
  /\ ty.inputs[1][1] = "user_data"
  /\ ty.inputs[1][2] = Pointer(Prim("Unit"))

\* C12: extract_callback returns the function exactly for a Function type
\* whose parameter list is non-empty and starts with `user_data` of type
\* Pointer(Unit), and nothing otherwise; extract_callbacks returns exactly the
\* callback parameters of the list, in parameter order.
C12_CallbackDetection ==
  /\ t_pc = "done_one" =>
       t_out = (IF IsCallbackTy(t_in) THEN Some(t_in) ELSE None)
  /\ t_pc = "done_list" =>
       t_out = SelectSeq(t_in, LAMBDA p : IsCallbackTy(p[2]))

C12_Witness ==
  /\ t_pc = "done_list"
  /\ Len(t_in) = 2
  /\ ~IsCallbackTy(t_in[1][2]) /\ t_in[1][2].k = "Function" /\ Len(t_in[1][2].inputs) = 2
  /\ t_in[1][2].inputs[1][1] = "ctx"
  /\ IsCallbackTy(t_in[2][2])
  /\ t_out = <<t_in[2]>>

-----------------------------------------------------------------------------
(* SpecShared: both generators given functions that take callbacks, two of *)
(* them callbacks of one kind under different parameter names.             *)

NamedIntCallback(n) ==
  TyBareFn("C", FnDecl(<<UserDataArg, FnArg(Pat(n), Int32)>>, RetDefault))

FnItemsS ==
  {ItemFn("run", {"no_mangle"}, "C", FALSE,
          FnDecl(<<FnArg(Pat("o_cb"), NamedIntCallback("x"))>>, RetDefault)),
   ItemFn("go", {"no_mangle"}, "C", FALSE,
          FnDecl(<<UserDataArg, FnArg(Pat("o_cb"), NamedIntCallback("y"))>>, RetDefault)),
   ItemFn("send", {"no_mangle"}, "C", FALSE,
          FnDecl(<<FnArg(Pat("o_cb"), BytesCallback)>>, RetDefault)),
   ItemFn("both", {"no_mangle"}, "C", FALSE,
          FnDecl(<<FnArg(Pat("o_a"), NamedIntCallback("x")),
                   FnArg(Pat("o_b"), BytesCallback)>>, RetDefault)),
   ItemFn("add", {"no_mangle"}, "C", FALSE, AddDecl)}

NextShared ==
  \/ \E item \in FnItemsS :
       DeclCount(Bindings) < MaxJavaDecls /\ JParseFn(item) /\ JavaFrame
  \/ \E item \in FnItemsS : accepted < MaxDecls /\ ParseFn(item) /\ CsFrame
  \/ FinaliseOutput /\ CsFrame

SpecShared == Init /\ [][NextShared]_vars

CallbackFiles == DOMAIN joutputs \ {BindingsFile}

\* a parse_fn call of LangJava leaves every callback file that exists as it
\* is; every callback interface a written declaration names has its file;
\* the C# class artifact holds one delegate for each wrapper name
C13_JavaFilesKept ==
  jcall'.op = "parse_fn" =>
    \A f \in CallbackFiles : f \in DOMAIN joutputs' /\ joutputs'[f] = joutputs[f]
C13_JavaFilesExist ==
  \A i \in 1..Len(Bindings) : \A j \in 1..Len(Bindings[i].args) :
    Bindings[i].args[j][1] \in {"CallbackInt", "CallbackByteArray"} =>
      (Bindings[i].args[j][1] \o ".java") \in CallbackFiles
C13_OneDelegatePerName ==
  ClassFile \in DOMAIN outputs =>
    LET art == outputs[ClassFile] IN
    /\ \A d1, d2 \in art.delegates :
         callback_wrapper_name(d1.callback) = callback_wrapper_name(d2.callback) => d1 = d2
    /\ \A i \in 1..Len(art.functions) :
         LET cbs == extract_callbacks(art.functions[i].snippet.inputs) IN
         \A j \in 1..Len(cbs) :
           \E d \in art.delegates :
             callback_wrapper_name(d.callback) = callback_wrapper_name(cbs[j][2])

\* C13: callback artifacts are memoized. Java: over any sequence of parse_fn
\* calls there is one <CallbackName>.java entry per callback name, never
\* overwritten once inserted. C#: collect_callbacks yields one delegate per
\* wrapper name, so two functions whose callbacks have identical non-context
\* parameter lists share one artifact.
C13_CallbacksMemoized ==
  [][C13_JavaFilesKept /\ C13_JavaFilesExist' /\ C13_OneDelegatePerName']_vars

\* two functions with callbacks of one kind, written by both generators
C13_Witness ==
  /\ Len(Bindings) = 2
  /\ Bindings[1].name = "run" /\ Bindings[2].name = "go"
  /\ CallbackFiles = {"CallbackInt.java"}
  /\ joutputs["CallbackInt.java"] = <<InterfaceChunk("CallbackInt", <<<<"int", "x">>>>)>>
  /\ ClassFile \in DOMAIN outputs
  /\ Len(outputs[ClassFile].functions) = 2
  /\ outputs[ClassFile].functions[1].snippet.name = "run"
  /\ outputs[ClassFile].functions[2].snippet.name = "go"
  /\ Cardinality(outputs[ClassFile].delegates) = 1

-----------------------------------------------------------------------------
(* SpecWrap: the C# generator given functions with no, one or two          *)
(* callbacks, under a wrapper blacklist that changes.                      *)

BlacklistIdents == {"run", "both"}

NextWrap ==
  \/ \E id \in BlacklistIdents : BlacklistWrapperFunction(id) /\ CsFrame
  \/ ResetWrapperFunctionBlacklist /\ CsFrame
  \/ \E item \in FnItemsS : accepted < MaxDecls /\ ParseFn(item) /\ CsFrame
  \/ FinaliseOutput /\ CsFrame

SpecWrap == Init /\ [][NextWrap]_vars

\* not blacklisted, and at most one parameter that is a callback
Eligible(blacklist, f) ==
  /\ f.name \notin blacklist
  /\ Len(SelectSeq(f.inputs, LAMBDA p : IsCallbackTy(p[2]))) <= 1

\* the functions a finalise_output step that writes the class artifact emits
EmittedFunctions == resolve_functions(aliases, functions)
WritesClass ==
  /\ call'.op = "finalise_output" /\ ret' = "Ok"
  /\ functions /= <<>>
  /\ InterfaceFile \notin DOMAIN outputs

\* C14: every collected function gets its extern declaration in the
\* implementation artifact; it gets a wrapper there and an entry in the
\* interface artifact iff its name is not in the wrapper blacklist and it has
\* at most one callback parameter.
C14_WrapperEligibility ==
  [][WritesClass =>
       /\ ClassFile \in DOMAIN outputs'
       /\ LET art == outputs'[ClassFile].functions
              fs == EmittedFunctions IN
          /\ Len(art) = Len(fs)
          /\ \A i \in 1..Len(fs) :
               /\ art[i].snippet = fs[i]
               /\ art[i].wrapper <=> Eligible(wrapper_function_blacklist, fs[i])
               /\ Eligible(wrapper_function_blacklist, fs[i]) <=>
                    /\ InterfaceFile \in DOMAIN outputs'
                    /\ \E j \in 1..Len(outputs'[InterfaceFile].functions) :
                         outputs'[InterfaceFile].functions[j] = fs[i]]_vars

\* a blacklisted function and an eligible one, both declared, one wrapped
C14_Witness ==
  /\ call.op = "finalise_output" /\ ret = "Ok"
  /\ wrapper_function_blacklist = {"run"}
  /\ ClassFile \in DOMAIN outputs /\ InterfaceFile \in DOMAIN outputs
  /\ Len(outputs[ClassFile].functions) = 2
  /\ outputs[ClassFile].functions[1].snippet.name = "run"
  /\ ~outputs[ClassFile].functions[1].wrapper
  /\ outputs[ClassFile].functions[2].snippet.name = "send"
  /\ outputs[ClassFile].functions[2].wrapper
  /\ Len(outputs[InterfaceFile].functions) = 1
  /\ outputs[InterfaceFile].functions[1].name = "send"

-----------------------------------------------------------------------------
(* SpecScenario: runs of both generators over the function                 *)
(* add(a: i32, b: i32) -> i32 and its unexported variants.                 *)

NextScenario ==
  \/ \E b \in BOOLEAN : SetUtilsEnabled(b) /\ CsFrame
  \/ \E item \in FnItemsC : accepted < MaxDecls /\ ParseFn(item) /\ CsFrame
  \/ FinaliseOutput /\ CsFrame
  \/ \E item \in FnItemsC :
       DeclCount(Bindings) < MaxJavaDecls /\ JParseFn(item) /\ JavaFrame
  \/ WrapCount(Bindings) < MaxJavaRuns /\ JFinaliseOutput /\ JavaFrame

SpecScenario == Init /\ [][NextScenario]_vars

AddSnippet ==
  [name |-> "add", inputs |-> <<<<"a", Prim("I32")>>, <<"b", Prim("I32")>>>>,
   output |-> Prim("I32")]
AddNative == NativeChunk("int", "add", <<<<"int", "a">>, <<"int", "b">>>>)

\* finalise_output ends a run of the C# generator whose only declaration was
\* add, into an empty output map
FinalisesAddRun ==
  /\ call'.op = "finalise_output" /\ ret' = "Ok"
  /\ functions = <<AddSnippet>>
  /\ consts = <<>> /\ custom_consts = <<>> /\ enums = <<>> /\ structs = <<>>
  /\ aliases = EmptyMap /\ outputs = EmptyMap
  /\ filter = {} /\ filter_mode = "Blacklist" /\ wrapper_function_blacklist = {}
  /\ types_enabled

\* each of the two artifacts holds one declaration of add, a before b
AddDeclared ==
  /\ {ClassFile, InterfaceFile} \subseteq DOMAIN outputs'
  /\ Len(outputs'[ClassFile].functions) = 1
  /\ outputs'[ClassFile].functions[1].snippet = AddSnippet
  /\ outputs'[InterfaceFile].functions = <<AddSnippet>>

\* C15 as stated: under the default configuration the run of add yields
\* exactly two artifacts, the implementation and the interface artifact, each
\* with one declaration of add with parameters a then b.
C15_TwoArtifacts ==
  [][FinalisesAddRun /\ utils_enabled =>
       DOMAIN outputs' = {ClassFile, InterfaceFile} /\ AddDeclared]_vars

\* C15, amended: under the default configuration the C# run of add yields
\* three artifacts, the implementation artifact, the interface artifact and
\* the utilities artifact (two when utilities are disabled), the first two
\* with one declaration of add with parameters a then b; the Java run of add
\* yields the one artifact NativeBindings.java with the one declaration.
C15_ScenarioA ==
  [][/\ FinalisesAddRun =>
          /\ DOMAIN outputs' = {ClassFile, InterfaceFile}
                                 \cup (IF utils_enabled THEN {UtilsFile} ELSE {})
          /\ AddDeclared
     /\ jcall'.op = "finalise_output" /\ joutputs = (BindingsFile :> <<AddNative>>) =>
          /\ jret' = "Ok"
          /\ joutputs' = (BindingsFile :> <<BindingsChunk(<<AddNative>>)>>)]_vars

C15_Witness ==
  /\ call.op = "finalise_output" /\ ret = "Ok"
  /\ utils_enabled
  /\ DOMAIN outputs = {ClassFile, InterfaceFile, UtilsFile}
  /\ outputs[InterfaceFile].functions = <<AddSnippet>>
  /\ jcall.op = "finalise_output" /\ jret = "Ok"
  /\ joutputs = (BindingsFile :> <<BindingsChunk(<<AddNative>>)>>)

-----------------------------------------------------------------------------
(* Claims on SpecJava                                                      *)

\* the result of the parse_fn call on item, had the map held these outputs
ParseFnFails(item, outs) ==
  /\ parse_attr_no_mangle(item.attrs) /\ is_extern(item.abi)
  /\ \/ is_parameterized(item.generics)
     \/ transform_native_fn(item.decl, item.ident, outs).r = "Err"

\* C16: finalise_output of LangJava returns Err exactly when the output map
\* has no NativeBindings.java entry, and then changes nothing; when the entry
\* exists it returns Ok, replaces the entry by its content wrapped in the
\* NativeBindings class and leaves every other artifact as it is; a parse_fn
\* call that fails without the entry fails with it as well.
C16_FinaliseNeedsBindings ==
  [][/\ jcall'.op = "finalise_output" =>
          IF BindingsFile \in DOMAIN joutputs
          THEN /\ jret' = "Ok"
               /\ DOMAIN joutputs' = DOMAIN joutputs
               /\ joutputs'[BindingsFile] = <<BindingsChunk(joutputs[BindingsFile])>>
               /\ \A f \in DOMAIN joutputs \ {BindingsFile} : joutputs'[f] = joutputs[f]
          ELSE jret' = "Err" /\ joutputs' = joutputs
     /\ jcall'.op = "parse_fn" /\ jret' = "Err" /\ BindingsFile \notin DOMAIN joutputs =>
          ParseFnFails(jcall'.item, Insert(joutputs, BindingsFile, NoText))
     /\ jcall'.op = "parse_struct" /\ jret' = "Err" =>
          UNCHANGED joutputs]_vars

\* both outcomes of finalise_output: the entry wrapped beside a struct file
C16_Witness ==
  /\ jcall.op = "finalise_output" /\ jret = "Ok"
  /\ "Foo.java" \in DOMAIN joutputs
  /\ Len(joutputs[BindingsFile]) = 1
  /\ joutputs[BindingsFile][1].k = "bindings"
  /\ Len(joutputs[BindingsFile][1].body) = 2

-----------------------------------------------------------------------------
(* SpecOrder: items of every kind, all of them accepted, given to the C#   *)
(* generator in any order, and functions given to the Java generator.      *)

ConstItemsO == {ItemConst(n, Int32) : n \in {"K", "L"}}
EnumItemsO == {ItemEnum(n, {"repr(C)"}, FALSE, <<"X", "Y">>) : n \in {"E", "F"}}
StructItemsO ==
  {ItemStruct(n, {"repr(C)"}, FALSE, "Struct", <<StructField("x", "", Int32)>>) :
     n \in {"S", "T"}}
FnItemsO == {f \in FnItemsS : f.ident \in {"run", "add"}}

NextOrder ==
  \/ \E it \in ConstItemsO : accepted < MaxDecls /\ ParseConst(it) /\ CsFrame
  \/ \E it \in EnumItemsO : accepted < MaxDecls /\ ParseEnum(it) /\ CsFrame
  \/ \E it \in StructItemsO : accepted < MaxDecls /\ ParseStruct(it) /\ CsFrame
  \/ \E it \in FnItemsO : accepted < MaxDecls /\ ParseFn(it) /\ CsFrame
  \/ FinaliseOutput /\ CsFrame
  \/ \E it \in FnItemsO : DeclCount(Bindings) < MaxJavaDecls /\ JParseFn(it) /\ JavaFrame

SpecOrder == Init /\ [][NextOrder]_vars

\* the names of a sequence of snippets, in its order
Names(snippets) == [i \in 1..Len(snippets) |-> snippets[i].name]
\* new is old with one snippet of this name put at its end
StoredLast(old, new, name) ==
  /\ Len(new) = Len(old) + 1
  /\ SubSeq(new, 1, Len(old)) = old
  /\ new[Len(new)].name = name

StoresInOrder ==
  /\ call'.op = "parse_const" /\ UNCHANGED jvars => StoredLast(consts, consts', call'.item.ident)
  /\ call'.op = "parse_enum" /\ UNCHANGED jvars => StoredLast(enums, enums', call'.item.ident)
  /\ call'.op = "parse_struct" /\ UNCHANGED jvars =>
       StoredLast(structs, structs', call'.item.ident)
  /\ call'.op = "parse_fn" /\ UNCHANGED jvars =>
       StoredLast(functions, functions', call'.item.ident)
  /\ jcall'.op = "parse_fn" /\ UNCHANGED csvars =>
       StoredLast(Bindings, Bindings', to_camel_case(jcall'.item.ident))
EmitsInOrder ==
  call'.op = "finalise_output" /\ UNCHANGED jvars =>
    /\ functions /= <<>> =>
         Names([i \in 1..Len(functions) |-> outputs'[ClassFile].functions[i].snippet])
           = Names(functions)
         /\ Len(outputs'[ClassFile].functions) = Len(functions)
    /\ consts /= <<>> => Names(outputs'[ConstsFile].consts) = Names(consts)
    /\ enums /= <<>> => Names(outputs'[TypesFile].enums) = Names(enums)

\* C17: encounter order is kept. Every accepted item is stored behind the
\* snippets of its kind already stored, which stay as they are, also when a
\* snippet of that name is stored already; finalise_output writes the
\* function declarations into the implementation artifact, and the Java
\* parse_fn into the native-bindings artifact, in that same order, none
\* moved, merged or lost.
C17_EncounterOrder == [][StoresInOrder /\ EmitsInOrder]_vars

\* two functions written in the order they came, one function kept twice
C17_Witness ==
  /\ call.op = "finalise_output" /\ ClassFile \in DOMAIN outputs
  /\ Len(outputs[ClassFile].functions) = 2
  /\ outputs[ClassFile].functions[1].snippet.name = "run"
  /\ outputs[ClassFile].functions[2].snippet.name = "add"
  /\ Names(Bindings) = <<"add", "add">>

-----------------------------------------------------------------------------
(* Claims on Spec: what a run leaves behind                                *)

\* the state right after a finalise_output call that returned Ok
Finalised == call.op = "finalise_output" /\ ret = "Ok"

\* C18: no state persists across runs: right after finalise_output the alias
\* table, the native type set, the opaque type set and the collections of
\* constants, enumerations, structs and functions are all empty.
C18_NothingPersists ==
  Finalised =>
    /\ DOMAIN aliases = {}
    /\ native_types = {} /\ opaque_types = {}
    /\ consts = <<>> /\ enums = <<>> /\ structs = <<>> /\ functions = <<>>

\* what finalise_output does empty
C18_Drained ==
  Finalised =>
    /\ native_types = {} /\ opaque_types = {}
    /\ consts = <<>> /\ functions = <<>> /\ custom_consts = <<>>
    /\ types_enabled => enums = <<>>

-----------------------------------------------------------------------------
(* SpecOpaque: structs parsed after some of their names were registered    *)
(* as opaque types.                                                        *)

OpaqueNames == {"S", "T"}
FieldListsQ ==
  {<<StructField("x", "", Int32)>>,
   <<StructField("data", "_ptr", TyPtr("const", TyPath("u8"))),
     StructField("data", "_len", TyPath("usize"))>>,
   <<StructField("c", "", TyPath("T"))>>}
StructItemsQ ==
  {ItemStruct(n, {"repr(C)"}, FALSE, "Struct", fl) : n \in OpaqueNames, fl \in FieldListsQ}

NextOpaque ==
  \/ \E n \in OpaqueNames : AddOpaqueType(n) /\ CsFrame
  \/ \E it \in StructItemsQ : accepted < MaxDecls /\ ParseStruct(it) /\ CsFrame
  \/ FinaliseOutput /\ CsFrame

SpecOpaque == Init /\ [][NextOpaque]_vars

\* C19: opaque types skip native detection: the resolve_native_types of a
\* parse_struct call never adds to the native type set a name that was
\* registered with add_opaque_type, whatever the fields of its struct.
C19_OpaqueNeverNative ==
  [][call'.op = "parse_struct" => (native_types' \ native_types) \cap opaque_types = {}]_vars

-----------------------------------------------------------------------------
(* java/jni.rs: the fields of a struct as the JNI conversions see them     *)

is_array_meta_field(field) ==
  /\ field.ty.k = "Path"
  /\ field.ty.segs[Len(field.ty.segs)] = "usize"
  /\ field.ident.suf \in {"_len", "_cap"}

\* the name of a pointer field without its `_ptr` ending
ptr_field_name(field) ==
  IF field.ident.suf = "_ptr" THEN field.ident.base ELSE pat_to_string(field.ident)

has_field(fields, name) ==
  \E i \in 1..Len(fields) : pat_to_string(fields[i].ident) = name

transform_struct_field(fields, f) ==
  IF f.ty.k = "Ptr" THEN
    IF has_field(fields, ptr_field_name(f) \o "_len")
    THEN [kind |-> "Array", field |-> f, len_field |-> ptr_field_name(f) \o "_len",
          cap_field |-> IF has_field(fields, ptr_field_name(f) \o "_cap")
                        THEN Some(ptr_field_name(f) \o "_cap") ELSE None]
    ELSE IF ty_to_string(f.ty.ty) = "c_char" THEN [kind |-> "String", field |-> f]
    ELSE [kind |-> "StructPtr", field |-> f, ty |-> f.ty]
  ELSE IF f.ty.k = "Path" THEN
    IF is_array_meta_field(f) THEN [kind |-> "LenField", field |-> f]
    ELSE [kind |-> "Primitive", field |-> f]
  ELSE [kind |-> "Primitive", field |-> f]

transform_struct_fields(fields) ==
  [i \in 1..Len(fields) |-> transform_struct_field(fields, fields[i])]

-----------------------------------------------------------------------------
(* Claims on SpecJava: a struct holding a pointer and its length           *)

\* the fields of the classes written so far
ClassFields ==
  UNION {{joutputs[f][1].fields[j] : j \in 1..Len(joutputs[f][1].fields)} :
           f \in {f \in DOMAIN joutputs :
                   joutputs[f] /= NoText /\ joutputs[f][1].k = "class"}}

\* C20: for a #[repr(C)] struct with the fields data (pointer to u8) and
\* data_len (usize) the pair is one array value: no class the Java generator
\* writes has a field dataLen of its own.
C20_NoLengthField == \A fd \in ClassFields : fd[2] /= "dataLen"

\* the JNI conversions do take the pair as one array and pass the length by
ArrayPairStruct ==
  /\ jcall.op = "parse_struct" /\ jret = "Ok"
  /\ Len(jcall.item.fields) = 2
  /\ pat_to_string(jcall.item.fields[2].ident) = "data_len"
C20_JniPairs ==
  ArrayPairStruct =>
    /\ transform_struct_fields(jcall.item.fields)[1].kind = "Array"
    /\ transform_struct_fields(jcall.item.fields)[1].len_field = "data_len"
    /\ transform_struct_fields(jcall.item.fields)[2].kind = "LenField"

-----------------------------------------------------------------------------
(* SpecShapes: structs of every shape given to both generators, under a    *)
(* filter that may name them.                                              *)

ShapeNames == {"S"}
StructItemsH ==
  {ItemStruct(n, at, FALSE, "Struct", <<StructField("x", "", Int32)>>) :
     n \in ShapeNames, at \in {{"repr(C)"}, {}}}
    \cup {ItemStruct(n, {"repr(C)"}, FALSE, "Tuple", fl) :
            n \in ShapeNames,
            fl \in {<<StructField("", "", Int32)>>,
                    <<StructField("", "", Int32), StructField("", "", Int32)>>}}
    \cup {ItemStruct(n, at, FALSE, "Unit", <<>>) : n \in ShapeNames, at \in {{"repr(C)"}, {}}}

NextShapes ==
  \/ \E id \in FilterIdents : Filter(id) /\ CsFrame
  \/ \E m \in FilterModes : ResetFilter(m) /\ CsFrame
  \/ \E it \in StructItemsH : accepted < MaxDecls /\ ParseStruct(it) /\ CsFrame
  \/ FinaliseOutput /\ CsFrame
  \/ \E it \in StructItemsH : JParseStruct(it) /\ JavaFrame

SpecShapes == Init /\ [][NextShapes]_vars

\* a non-generic struct under the C-layout marker
CLayoutStruct(item) ==
  item.kind = "Struct" /\ "repr(C)" \in item.attrs /\ ~item.generics
\* a unit struct, or a tuple struct of more than one field
Malformed(item) ==
  \/ item.shape = "Unit"
  \/ item.shape = "Tuple" /\ Len(item.fields) > 1

CsShapes ==
  call'.op = "parse_struct" /\ UNCHANGED jvars /\ CLayoutStruct(call'.item)
    /\ ~Filtered(filter, filter_mode, call'.item.ident) =>
      /\ Malformed(call'.item) =>
           ret' = "Err" /\ UNCHANGED <<structs, native_types, outputs>>
      /\ call'.item.shape = "Struct" =>
           ret' = "Ok" /\ StoredLast(structs, structs', call'.item.ident)
JavaShapes ==
  jcall'.op = "parse_struct" /\ CLayoutStruct(jcall'.item) =>
    /\ Malformed(jcall'.item) => jret' = "Err" /\ UNCHANGED joutputs
    /\ jcall'.item.shape = "Struct" =>
         /\ jret' = "Ok"
         /\ (to_class_case(jcall'.item.ident) \o ".java") \in DOMAIN joutputs'

-----------------------------------------------------------------------------
(* Claims on SpecSweep: how many sweeps a propagation takes                *)

\* C22: for a collection of N structs one call of resolve_native_types
\* begins at most N sweeps over the collection.
C22_AtMostNSweeps == sw_n <= Len(structs)

\* C22, as the loop runs: the sweep that marks nothing is a sweep too, so a
\* call begins at most N + 1 sweeps for N structs.
C22_SweepBound == sw_n <= Len(structs) + 1

\* a chain of two structs listed against its dependency: three sweeps
C22_Witness ==
  /\ sw_pc = "done"
  /\ Len(structs) = 2
  /\ sw_n = 3
  /\ native_types = {structs[1].name, structs[2].name}

-----------------------------------------------------------------------------
(* SpecPasses: structs that name a native struct directly or through an    *)
(* alias, collected and emitted.                                           *)

TyItemsR == {ItemTy("A", FALSE, TyPath("S"))}
FieldListsR ==
  {<<StructField("x", "", Int32)>>,
   <<StructField("data", "_ptr", TyPtr("const", TyPath("u8"))),
     StructField("data", "_len", TyPath("usize"))>>,
   <<StructField("c", "", TyPath("A"))>>,
   <<StructField("c", "", TyPath("S"))>>}
StructItemsR ==
  {ItemStruct(n, {"repr(C)"}, FALSE, "Struct", fl) : n \in {"S", "T"}, fl \in FieldListsR}

NextPasses ==
  \/ \E it \in TyItemsR : ParseTy(it) /\ CsFrame
  \/ \E it \in StructItemsR : accepted < MaxDecls /\ ParseStruct(it) /\ CsFrame
  \/ FinaliseOutput /\ CsFrame

SpecPasses == Init /\ [][NextPasses]_vars

\* the struct snippets in the types artifact, and the names marked native there
EmittedStructs(art) == [i \in 1..Len(art.structs) |-> art.structs[i].snippet]
EmittedNative(art) ==
  {art.structs[i].snippet.name : i \in {i \in 1..Len(art.structs) : art.structs[i].native}}

\* C23: alias resolution precedes native-type propagation: when
\* finalise_output writes the types artifact from a collection whose native
\* type set is up to date, the structs it writes as native are the least
\* fixed point of the rule over the alias-resolved struct names and field
\* types, as if every alias had been written out.
C23_NativeOverResolved ==
  [][call'.op = "finalise_output" /\ ret' = "Ok" /\ types_enabled /\ structs /= <<>>
       /\ native_types = LeastFixedPoint(structs) =>
         EmittedNative(outputs'[TypesFile])
           = LeastFixedPoint(EmittedStructs(outputs'[TypesFile]))]_vars

-----------------------------------------------------------------------------
(* SpecSubst: resolve_alias and the struct loop of resolve_aliases applied *)
(* to one type, or one struct, under an alias table without cycles.        *)

AliasNames == {"A", "B"}
AliasTargets ==
  {Prim("I32"), User("A"), User("B"), User("C"), Pointer(User("A")),
   Array(User("B"), Some(2))}
\* no chain of alias-to-alias links comes back to where it began
Acyclic(al) ==
  ~ \E n \in 1..Cardinality(DOMAIN al) : \E c \in [1..n -> DOMAIN al] :
       /\ \A i \in 1..(n - 1) : al[c[i]] = User(c[i + 1])
       /\ al[c[n]] = User(c[1])
AliasTables ==
  {al \in UNION {[D -> AliasTargets] : D \in SUBSET AliasNames} : Acyclic(al)}
SubstTys ==
  {Prim("I32"), User("A"), User("B"), User("C"), Pointer(User("A")),
   Pointer(Pointer(User("B"))), Array(User("B"), Some(2)),
   Function(<<<<"p", User("A")>>, <<"q", Prim("I32")>>>>, User("B"))}
SubstStructs ==
  {[name |-> n, fields |-> <<[name |-> "c", ty |-> t, dyn |-> FALSE]>>] :
     n \in {"A", "B", "C"}, t \in {User("A"), Prim("I32")}}

InitSubst ==
  /\ \/ t_pc = "type" /\ t_in \in [al : AliasTables, ty : SubstTys]
     \/ t_pc = "struct" /\ t_in \in [al : AliasTables, s : SubstStructs]
  /\ t_out = None
  /\ CsInit /\ SwIdle /\ JInit

ResolveAlias ==
  /\ t_pc = "type"
  /\ t_out' = resolve_alias(t_in.al, t_in.ty)
  /\ t_pc' = "done_type"
  /\ UNCHANGED <<t_in, csvars, swvars, jvars>>

ResolveStruct ==
  /\ t_pc = "struct"
  /\ t_out' = resolve_struct(t_in.al, t_in.s)
  /\ t_pc' = "done_struct"
  /\ UNCHANGED <<t_in, csvars, swvars, jvars>>

NextSubst ==
  \/ ResolveAlias
  \/ ResolveStruct

SpecSubst == InitSubst /\ [][NextSubst]_vars

\* t is the type at the end of the alias chain that begins at x
ChainEnd(al, x, t) ==
  \E n \in 1..Cardinality(DOMAIN al) : \E c \in [1..n -> DOMAIN al] :
    /\ c[1] = x
    /\ \A i \in 1..(n - 1) : al[c[i]] = User(c[i + 1])
    /\ t = al[c[n]]
    /\ ~(t.k = "User" /\ t.name \in DOMAIN al)

\* new is old with every Named leaf that is in the table replaced by the end
\* of its chain, and everything else as it was
RECURSIVE Substituted(_, _, _)
Substituted(al, old, new) ==
  CASE old.k = "User" ->
         IF old.name \in DOMAIN al THEN ChainEnd(al, old.name, new) ELSE new = old
    [] old.k = "Pointer" -> new.k = "Pointer" /\ Substituted(al, old.ty, new.ty)
    [] old.k = "Array" ->
         new.k = "Array" /\ new.size = old.size /\ Substituted(al, old.ty, new.ty)
    [] old.k = "Function" ->
         /\ new.k = "Function" /\ Len(new.inputs) = Len(old.inputs)
         /\ Substituted(al, old.output, new.output)
         /\ \A i \in 1..Len(old.inputs) :
              /\ new.inputs[i][1] = old.inputs[i][1]
              /\ Substituted(al, old.inputs[i][2], new.inputs[i][2])
    [] OTHER -> new = old

\* C24: under an acyclic alias table resolve_alias turns Named(x), x in the
\* table, into the type at the end of x's chain (a type that is not Named, or
\* Named(y) with y outside the table), leaves a Named(x) outside the table
\* and every other leaf as it is, and does so inside Pointer, Array and
\* Function types too; a struct is renamed to y when its name's chain ends
\* in Named(y), and keeps its name otherwise.
C24_TransitiveSubstitution ==
  /\ t_pc = "done_type" => Substituted(t_in.al, t_in.ty, t_out)
  /\ t_pc = "done_struct" =>
       /\ t_out.name =
            IF \E y \in {"A", "B", "C"} : ChainEnd(t_in.al, t_in.s.name, User(y))
            THEN CHOOSE y \in {"A", "B", "C"} : ChainEnd(t_in.al, t_in.s.name, User(y))
            ELSE t_in.s.name
       /\ Substituted(t_in.al, t_in.s.fields[1].ty, t_out.fields[1].ty)

\* a chain of two links followed from inside a pointer
C24_Witness ==
  /\ t_pc = "done_type"
  /\ t_in.ty = Pointer(Pointer(User("B")))
  /\ DOMAIN t_in.al = {"A", "B"}
  /\ t_in.al["B"] = User("A") /\ t_in.al["A"] = User("C")
  /\ t_out = Pointer(Pointer(User("C")))

-----------------------------------------------------------------------------
(* Claims on SpecPairs: whose length a length parameter is                 *)

\* the length parameter is named after this pointer: <p>_len, len or size
NamedAfter(ptr, len) ==
  \/ len.pat.suf = "_len" /\ len.pat.base = pat_to_string(ptr.pat)
  \/ pat_to_string(len.pat) \in {"len", "size"}

\* C25: a pointer parameter is merged with the parameter right after it in
\* the declared list only if that one is a usize named after the pointer
\* (<p>_len, or len, or size): a usize parameter named after another base,
\* or one that another declared parameter separates from the pointer, is
\* emitted as a parameter of its own.
C25_PairsByPointerName ==
  EmittedFn =>
    LET ins == jcall.item.decl.inputs IN
    \A i \in 1..Len(ins) : \A j \in (i + 1)..Len(ins) :
      /\ ins[i].ty.k = "Ptr" /\ ty_to_string(ins[j].ty) = "usize"
      /\ j > i + 1 \/ ~NamedAfter(ins[i], ins[j])
      /\ \A k \in 1..(j - 1) : ins[k].ty.k = "Ptr" => (k = i \/ ~NamedAfter(ins[k], ins[j]))
      => EmittedAs(ins[j]) = {JavaTypeOf(ins[j])}

-----------------------------------------------------------------------------
(* SpecContext: functions whose function-pointer parameter does or does    *)
(* not begin with the context parameter, given to the Java generator.      *)

\* fn(x: i32), fn(ctx: *mut c_void, x: i32) and fn(user_data: *mut c_void, x: i32)
PlainFnPtr == TyBareFn("C", FnDecl(<<FnArg(Pat("x"), Int32)>>, RetDefault))
OtherContextFnPtr ==
  TyBareFn("C", FnDecl(<<FnArg(Pat("ctx"), TyPtr("mut", TyPath("c_void"))),
                         FnArg(Pat("x"), Int32)>>, RetDefault))
FnDeclsX ==
  {FnDecl(<<FnArg(Pat("o_cb"), t)>>, RetDefault) :
     t \in {PlainFnPtr, OtherContextFnPtr, IntCallback("C")}}
    \cup {AddDecl}
FnItemsX ==
  {ItemFn(n, {"no_mangle"}, "C", FALSE, d) : n \in {"run", "go", "send"}, d \in FnDeclsX}

NextContext ==
  \/ \E item \in FnItemsX :
       DeclCount(Bindings) < MaxJavaDecls /\ JParseFn(item) /\ JavaFrame
  \/ WrapCount(Bindings) < MaxJavaRuns /\ JFinaliseOutput /\ JavaFrame

SpecContext == InitJava /\ [][NextContext]_vars

\* a function-pointer type whose first parameter is the context parameter
HasContext(ty) ==
  /\ ty.k = "BareFn"
  /\ ty.decl.inputs /= <<>>
  /\ pat_to_string(ty.decl.inputs[1].pat) = "user_data"
  /\ ty.decl.inputs[1].ty = TyPtr("mut", TyPath("c_void"))

\* C26: transform_native_fn writes a callback interface artifact for a
\* function-pointer parameter only when the first parameter of that function
\* pointer is `user_data: *mut c_void`: a parse_fn call on a function none of
\* whose parameters is such a function pointer adds no file to the output
\* map but NativeBindings.java.
C26_CallbackNeedsContext ==
  [][jcall'.op = "parse_fn"
       /\ (\A i \in 1..Len(jcall'.item.decl.inputs) :
             ~HasContext(jcall'.item.decl.inputs[i].ty))
       => DOMAIN joutputs' \ DOMAIN joutputs \subseteq {BindingsFile}]_vars

-----------------------------------------------------------------------------
(* Claims on SpecWrap: the class and the interface it implements           *)

\* C27: whenever finalise_output has written the implementation artifact
\* <Class>.cs, whose class implements I<Class>, the output map holds the
\* interface artifact I<Class>.cs as well, whatever functions were collected
\* and whatever the wrapper blacklist names.
C27_ClassHasInterface ==
  ClassFile \in DOMAIN outputs => InterfaceFile \in DOMAIN outputs

-----------------------------------------------------------------------------
(* SpecNaming: functions whose callbacks get one interface name, given to  *)
(* the Java generator in any order.                                        *)

\* fn(user_data: *mut c_void, result: *const FfiResult, x: i32)
ResultIntCallback ==
  TyBareFn("C", FnDecl(<<UserDataArg, ResultArg, FnArg(Pat("x"), Int32)>>, RetDefault))
CallbackTysG == {IntCallback("C"), NamedIntCallback("y"), ResultIntCallback}
FnItemsG ==
  {ItemFn(n, {"no_mangle"}, "C", FALSE, FnDecl(<<FnArg(Pat("o_cb"), t)>>, RetDefault)) :
     n \in {"run", "go", "send"}, t \in CallbackTysG}

NextNaming ==
  \/ \E item \in FnItemsG :
       DeclCount(Bindings) < MaxJavaDecls /\ JParseFn(item) /\ JavaFrame
  \/ WrapCount(Bindings) < MaxJavaRuns /\ JFinaliseOutput /\ JavaFrame

SpecNaming == InitJava /\ [][NextNaming]_vars

\* the types of a `call(...)` parameter list
ParamTypes(params) == [i \in 1..Len(params) |-> params[i][1]]

\* the interface file of this name declares call(...) with the parameter
\* types callback_to_java gives this function pointer
BoundTo(outs, name, sig) ==
  /\ (name \o ".java") \in DOMAIN outs
  /\ outs[name \o ".java"] /= NoText
  /\ ParamTypes(outs[name \o ".java"][1].call) = ParamTypes(sig)

\* C28: callback types to which callback_name gives one interface name have
\* one call(...) parameter list by callback_to_java: after every parse_fn
\* call that returned Ok, the interface file named for each function-pointer
\* parameter declares call(...) with the parameter types of that function
\* pointer, also when the file was written for an earlier function.
C28_NameFixesSignature ==
  [][jcall'.op = "parse_fn" /\ jret' = "Ok" =>
       \A i \in 1..Len(jcall'.item.decl.inputs) :
         LET ty == jcall'.item.decl.inputs[i].ty IN
         ty.k = "BareFn" /\ callback_to_java(ty).r = "Ok" /\ callback_to_java(ty).v /= None
           => BoundTo(joutputs', callback_name(ty.decl.inputs).v,
                      callback_to_java(ty).v.val)]_vars

-----------------------------------------------------------------------------
(* java/jni.rs: generate_jni_function. A token of the generated call is    *)
(* a record: [tok, arg] for a value made from the argument of that name,   *)
(* [tok |-> "ctx"], and [tok |-> "callback", fn] for a callback function.  *)

\* JniArgResult.call_args of the transform_*_arg functions
transform_string_arg(arg_name) == <<[tok |-> "as_ptr", arg |-> arg_name]>>
transform_struct_arg(arg_name) == <<[tok |-> "ref", arg |-> arg_name]>>
transform_array_arg(arg_name) ==
  <<[tok |-> "as_ptr", arg |-> arg_name], [tok |-> "len", arg |-> arg_name]>>
transform_opaque_ptr(arg_name) == <<[tok |-> "value", arg |-> arg_name]>>

\* the callback functions are cb_base_name, or cb_base_name_<idx> from 0 on
\* when there are several
transform_callbacks_arg(callbacks, cb_base_name) ==
  [idx \in 1..Len(callbacks) |->
     [tok |-> "callback",
      fn |-> IF Len(callbacks) > 1 THEN <<cb_base_name, idx - 1>> ELSE <<cb_base_name, -1>>]]

\* the call arguments one argument of the loop contributes
jni_arg_call_args(arg) ==
  IF arg.ty.k = "BareFn" THEN <<>>
  ELSE IF arg.ty.k = "Ptr" THEN
    CASE ty_to_string(arg.ty.ty) \in {"App", "Authenticator"} ->
           transform_opaque_ptr(pat_to_string(arg.pat))
      [] ty_to_string(arg.ty.ty) = "c_char" -> transform_string_arg(pat_to_string(arg.pat))
      [] OTHER -> transform_struct_arg(pat_to_string(arg.pat))
  ELSE <<[tok |-> "cast", arg |-> pat_to_string(arg.pat)]>>

\* the argument loop from the i-th of the filtered arguments on
RECURSIVE jni_args_from(_, _, _, _)
jni_args_from(args, i, call_args, callbacks) ==
  IF i > Len(args) THEN [call_args |-> call_args, callbacks |-> callbacks]
  ELSE IF is_array_arg(args, i)
  THEN jni_args_from(args, i + 2,
         call_args \o transform_array_arg(pat_to_string(args[i].pat)), callbacks)
  ELSE jni_args_from(args, i + 1, call_args \o jni_arg_call_args(args[i]),
         IF args[i].ty.k = "BareFn" THEN Append(callbacks, args[i]) ELSE callbacks)

\* `call_<native name>` for several callbacks, `call_<callback name>` for one
cb_base_name(native_name, callbacks) ==
  IF Len(callbacks) > 1 THEN "call_" \o native_name
  ELSE "call_" \o callback_name(callbacks[1].ty.decl.inputs).v

\* the arguments of the call to the native function, after the loop
jni_call_args(native_name, loop) ==
  IF Len(loop.callbacks) > 0
  THEN loop.call_args \o <<[tok |-> "ctx"]>>
         \o transform_callbacks_arg(loop.callbacks, cb_base_name(native_name, loop.callbacks))
  ELSE loop.call_args

\* generate_jni_function: the arguments of `lib::native_name(...)` in the
\* function it returns
generate_jni_function(args, native_name) ==
  jni_call_args(native_name, jni_args_from(without_user_data(args), 1, <<>>, <<>>))

-----------------------------------------------------------------------------
(* SpecJni: generate_jni_function applied to one argument list.            *)

JniParams ==
  {FnArg(Pat("x"), Int32), FnArg(Pat("data"), BytePtr), FnArg(Ident("data", "_len"), Usize),
   UserDataArg, FnArg(Pat("o_cb"), IntCallback("C"))}
JniArgLists ==
  UNION {[1..n -> JniParams] : n \in 0..MaxJniArgs}

InitJni ==
  /\ t_pc = "jni" /\ t_in \in JniArgLists /\ t_out = None
  /\ CsInit /\ SwIdle /\ JInit

GenerateJniFunction ==
  /\ t_pc = "jni"
  /\ t_out' = generate_jni_function(t_in, "run")
  /\ t_pc' = "done_jni"
  /\ UNCHANGED <<t_in, csvars, swvars, jvars>>

NextJni == GenerateJniFunction

SpecJni == InitJni /\ [][NextJni]_vars

\* what the call passes for the i-th declared parameter when every
\* parameter is passed at its own place
RECURSIVE PassedInPlace(_, _)
PassedInPlace(args, i) ==
  IF i > Len(args) THEN <<>>
  ELSE IF is_user_data_arg(args[i])
  THEN <<"ctx">> \o PassedInPlace(args, i + 1)
  ELSE IF args[i].ty.k = "BareFn"
  THEN <<"callback">> \o PassedInPlace(args, i + 1)
  ELSE IF args[i].ty.k = "Ptr" /\ i < Len(args) /\ LengthNamed(args[i + 1])
  THEN <<<<"as_ptr", pat_to_string(args[i].pat)>>, <<"len", pat_to_string(args[i].pat)>>>>
         \o PassedInPlace(args, i + 2)
  ELSE <<<<"value", pat_to_string(args[i].pat)>>>> \o PassedInPlace(args, i + 1)

\* the generated call, read the same way
Passed(call_args) ==
  [i \in 1..Len(call_args) |->
     CASE call_args[i].tok \in {"ctx", "callback"} -> call_args[i].tok
       [] call_args[i].tok \in {"as_ptr", "len"} -> <<call_args[i].tok, call_args[i].arg>>
       [] OTHER -> <<"value", call_args[i].arg>>]

\* C29: the call generate_jni_function writes passes one argument for each
\* declared native parameter in the declared order: an array pair gives its
\* pointer and then its length, `ctx` stands where the native user_data
\* parameter stands and each callback where its function pointer stands,
\* wherever these parameters are in the signature; ctx is passed only when
\* user_data is declared.
C29_ArgumentsInPlace ==
  t_pc = "done_jni" => Passed(t_out) = PassedInPlace(t_in, 1)

-----------------------------------------------------------------------------
(* java/jni.rs: generate_struct_from_java                                  *)

\* the local names the conversion statements of one classified field bind
conversion_bindings(f) ==
  CASE f.kind = "Array" ->
         IF f.field.ty.k = "Ptr"
         THEN {f.len_field, pat_to_string(f.field.ident)}
                \cup (IF f.cap_field = None THEN {} ELSE {f.cap_field.val})
         ELSE {}
    [] f.kind = "StructPtr" -> {pat_to_string(f.field.ident)}
    [] f.kind = "LenField" -> {}
    [] f.kind = "String" -> {pat_to_string(f.field.ident)}
    [] f.kind = "Primitive" ->
         IF f.field.ty.k = "Path" THEN {pat_to_string(f.field.ident)} ELSE {}

\* generate_struct_from_java: the fields of the struct literal and the local
\* names its conversion statements bind before it
struct_from_java(classified) ==
  [fields_values |-> [i \in 1..Len(classified) |-> pat_to_string(classified[i].field.ident)],
   bound |-> UNION {conversion_bindings(classified[i]) : i \in 1..Len(classified)}]

generate_struct_from_java(fields) == struct_from_java(transform_struct_fields(fields))

-----------------------------------------------------------------------------
(* SpecFromJava: generate_struct_from_java applied to one list of named    *)
(* fields, no two of one name.                                             *)

FieldPool ==
  {StructField("data", "", BytePtr),
   StructField("data", "_ptr", TyPtr("mut", TyPath("Foo"))),
   StructField("data", "_len", Usize),
   StructField("data", "_cap", Usize),
   StructField("count", "_len", Usize),
   StructField("x", "", Int32),
   StructField("s", "", TyPtr("const", TyPath("c_char")))}
FieldLists ==
  {fl \in UNION {[1..n -> FieldPool] : n \in 0..MaxStructFields} :
     \A i, j \in 1..Len(fl) : i /= j => fl[i].ident /= fl[j].ident}

InitFromJava ==
  /\ t_pc = "from_java" /\ t_in \in FieldLists /\ t_out = None
  /\ CsInit /\ SwIdle /\ JInit

GenerateStructFromJava ==
  /\ t_pc = "from_java"
  /\ t_out' = generate_struct_from_java(t_in)
  /\ t_pc' = "done_from_java"
  /\ UNCHANGED <<t_in, csvars, swvars, jvars>>

NextFromJava == GenerateStructFromJava

SpecFromJava == InitFromJava /\ [][NextFromJava]_vars

\* C30: the struct literal generate_struct_from_java writes is fully bound:
\* every field in it has a local binding of its name made by one of the
\* conversion statements, a usize field ending in _len or _cap by the
\* conversion of the array pointer field of its base in the same struct.
C30_FullyBound ==
  t_pc = "done_from_java" =>
    \A i \in 1..Len(t_out.fields_values) : t_out.fields_values[i] \in t_out.bound

\* the literal is fully bound when every length or capacity field has its
\* array: a pointer field of its base, and the length field of that base
C30_BoundWithArrays ==
  t_pc = "done_from_java"
    /\ (\A i \in 1..Len(t_in) : t_in[i].ident.suf \in {"_len", "_cap"} =>
          /\ has_field(t_in, t_in[i].ident.base \o "_len")
          /\ \E j \in 1..Len(t_in) :
               t_in[j].ty.k = "Ptr" /\ ptr_field_name(t_in[j]) = t_in[i].ident.base)
    => \A i \in 1..Len(t_out.fields_values) : t_out.fields_values[i] \in t_out.bound

====
